---- MODULE Spec2Model ----
(***************************************************************************)
(* A model of the patch-application engine of zicongmei/ai-coder (v2):     *)
(* package modifyFiles (udf.go, fullText.go) and package utils.            *)
(*                                                                         *)
(* Text is modelled at the level of single characters: a Go string is a    *)
(* sequence of one-character strings, so that prefix tests, splitting,     *)
(* trimming and substring search are computed as the code computes them.   *)
(***************************************************************************)
EXTENDS Integers, Sequences, FiniteSets, TLC

NL == "\n"
TAB == "\t"

\* Op(e), with e evaluated once and its value handed to Op
Bind(e, Op(_)) == CHOOSE r \in {Op(v) : v \in {e}} : TRUE

Min(a, b) == IF a <= b THEN a ELSE b

Max(a, b) == IF a >= b THEN a ELSE b

SetMin(S) == CHOOSE x \in S : \A y \in S : x <= y

SetMax(S) == CHOOSE x \in S : \A y \in S : x >= y

\* the k-th smallest element of a set of numbers
Nth(S, k) == CHOOSE x \in S : Cardinality({y \in S : y < x}) = k - 1

(***************************************************************************)
(* The Go standard library string functions the code calls.                *)
(***************************************************************************)

\* unicode.IsSpace on the characters of the model's alphabet
IsSpace(c) == c \in {" ", NL, TAB, "\r"}

\* s[i:j] of Go (0-based, j exclusive)
Slice(s, i, j) == SubSeq(s, i + 1, j)

\* strings.HasPrefix
HasPrefix(s, p) == Len(s) >= Len(p) /\ SubSeq(s, 1, Len(p)) = p

\* strings.TrimPrefix
TrimPrefix(s, p) == IF HasPrefix(s, p) THEN SubSeq(s, Len(p) + 1, Len(s)) ELSE s

\* the 0-based offsets at which sub occurs in s
Occurrences(s, sub) ==
    {i \in 0..(Len(s) - Len(sub)) : SubSeq(s, i + 1, i + Len(sub)) = sub}

\* strings.Index: the first occurrence, -1 when there is none
Index(s, sub) ==
    Bind(Occurrences(s, sub), LAMBDA occ : IF occ = {} THEN -1 ELSE SetMin(occ))

\* strings.LastIndex
LastIndex(s, sub) ==
    Bind(Occurrences(s, sub), LAMBDA occ : IF occ = {} THEN -1 ELSE SetMax(occ))

\* strings.Contains
Contains(s, sub) == \E i \in 0..(Len(s) - Len(sub)) : SubSeq(s, i + 1, i + Len(sub)) = sub

\* the pieces of s between the separator positions seps (a set of 1-based positions)
PiecesBetween(s, seps) ==
    [k \in 1..(Cardinality(seps) + 1) |->
        SubSeq(s, IF k = 1 THEN 1 ELSE Nth(seps, k - 1) + 1,
                  IF k = Cardinality(seps) + 1 THEN Len(s) ELSE Nth(seps, k) - 1)] \o <<>>

\* strings.Split(s, "\n"): n separators give n+1 pieces, "" gives <<"">>
Split(s) ==
    Bind(s, LAMBDA v :
        Bind({i \in 1..Len(v) : v[i] = NL}, LAMBDA seps : PiecesBetween(v, seps)))

\* strings.Join(lines, "\n")
RECURSIVE JoinFrom(_, _)
JoinFrom(lines, i) ==
    IF i > Len(lines) THEN <<>>
    ELSE IF i = Len(lines) THEN lines[i]
    ELSE lines[i] \o <<NL>> \o JoinFrom(lines, i + 1)

Join(lines) == Bind(lines, LAMBDA ls : JoinFrom(ls, 1))

\* strings.TrimSpace
TrimSpace(s) ==
    Bind(s, LAMBDA v :
        Bind({i \in 1..Len(v) : ~IsSpace(v[i])}, LAMBDA keep :
            IF keep = {} THEN <<>> ELSE SubSeq(v, SetMin(keep), SetMax(keep))))

\* strings.Fields: the maximal runs of non-space characters
FieldsBetween(s, starts, ends) ==
    [k \in 1..Cardinality(starts) |-> SubSeq(s, Nth(starts, k), Nth(ends, k))] \o <<>>

Fields(s) ==
    Bind(s, LAMBDA v :
        Bind(<<{i \in 1..Len(v) : ~IsSpace(v[i]) /\ (i = 1 \/ IsSpace(v[i - 1]))},
               {i \in 1..Len(v) : ~IsSpace(v[i]) /\ (i = Len(v) \/ IsSpace(v[i + 1]))}>>,
             LAMBDA runs : FieldsBetween(v, runs[1], runs[2])))

(***************************************************************************)
(* Go maps from string to string: a function whose domain is the key set.  *)
(***************************************************************************)
EmptyMap == [k \in {} |-> <<>>]

\* a variant of MapPut that keeps the value a key already has
MapPut_FirstWins(m, k, v) ==
    [x \in (DOMAIN m) \cup {k} |-> IF x \in DOMAIN m THEN m[x] ELSE v]

MapPut(m, k, v) == [x \in (DOMAIN m) \cup {k} |-> IF x = k THEN v ELSE m[x]]

(***************************************************************************)
(* udf.go: parseUnifiedDiffString                                          *)
(***************************************************************************)
OldHeaderPrefix == <<"-", "-", "-", " ", "a", "/">>

NewHeaderPrefix == <<"+", "+", "+", " ", "b", "/">>

\* the state of the scan before the first line (udf.go:71-78)
ParseStart ==
    [fileDiffs |-> EmptyMap, currentFilePath |-> <<>>, builder |-> <<>>,
     inDiffBlock |-> FALSE]

\* udf.go:84-87 and 133-136: save the collected diff of the open block
SaveBlock(st) ==
    IF st.inDiffBlock /\ st.currentFilePath # <<>>
    THEN MapPut(st.fileDiffs, st.currentFilePath, st.builder)
    ELSE st.fileDiffs

\* the path of an old-file header line: the second field without its leading
\* "a" (udf.go:93-98); <<>> when there are fewer than two fields
HeaderPath(line) ==
    Bind(Fields(line), LAMBDA parts :
        IF Len(parts) >= 2 THEN TrimPrefix(parts[2], <<"a">>) ELSE <<>>)

\* a variant of ParseLine that keeps the two header lines out of the per-file
\* diff, as the expectations of udf_test.go have it
ParseLine_HeadersDropped(st, line) ==
    IF HasPrefix(line, OldHeaderPrefix)
    THEN Bind(HeaderPath(line), LAMBDA path :
             IF ~(path = <<>> \/ (Len(path) = 1 /\ path[1] = "/"))
             THEN [fileDiffs |-> SaveBlock(st), currentFilePath |-> path,
                   builder |-> <<>>, inDiffBlock |-> TRUE]
             ELSE [fileDiffs |-> SaveBlock(st), currentFilePath |-> <<>>,
                   builder |-> <<>>, inDiffBlock |-> FALSE])
    ELSE IF HasPrefix(line, NewHeaderPrefix) THEN st
    ELSE IF st.inDiffBlock /\ st.currentFilePath # <<>>
    THEN [st EXCEPT !.builder = st.builder \o line \o <<NL>>]
    ELSE st

\* a variant of ParseLine in which a new-file header outside a block opens a
\* block of its own
ParseLine_NewHeaderOpens(st, line) ==
    IF HasPrefix(line, OldHeaderPrefix)
    THEN Bind(HeaderPath(line), LAMBDA path :
             IF ~(path = <<>> \/ (Len(path) = 1 /\ path[1] = "/"))
             THEN [fileDiffs |-> SaveBlock(st), currentFilePath |-> path,
                   builder |-> line \o <<NL>>, inDiffBlock |-> TRUE]
             ELSE [fileDiffs |-> SaveBlock(st), currentFilePath |-> <<>>,
                   builder |-> <<>>, inDiffBlock |-> FALSE])
    ELSE IF HasPrefix(line, NewHeaderPrefix)
    THEN IF st.inDiffBlock /\ st.currentFilePath # <<>>
         THEN [st EXCEPT !.builder = st.builder \o line \o <<NL>>]
         ELSE [fileDiffs |-> st.fileDiffs,
               currentFilePath |-> TrimPrefix(Fields(line)[2], <<"b">>),
               builder |-> line \o <<NL>>, inDiffBlock |-> TRUE]
    ELSE IF st.inDiffBlock /\ st.currentFilePath # <<>>
    THEN [st EXCEPT !.builder = st.builder \o line \o <<NL>>]
    ELSE st

\* a variant of ParseLine that accepts the path "/" of the header '--- a/'
ParseLine_DegenerateAccepted(st, line) ==
    IF HasPrefix(line, OldHeaderPrefix)
    THEN Bind(HeaderPath(line), LAMBDA path :
             IF path # <<>>
             THEN [fileDiffs |-> SaveBlock(st), currentFilePath |-> path,
                   builder |-> line \o <<NL>>, inDiffBlock |-> TRUE]
             ELSE [fileDiffs |-> SaveBlock(st), currentFilePath |-> <<>>,
                   builder |-> <<>>, inDiffBlock |-> FALSE])
    ELSE IF HasPrefix(line, NewHeaderPrefix)
    THEN IF st.inDiffBlock /\ st.currentFilePath # <<>>
         THEN [st EXCEPT !.builder = st.builder \o line \o <<NL>>]
         ELSE st
    ELSE IF st.inDiffBlock /\ st.currentFilePath # <<>>
    THEN [st EXCEPT !.builder = st.builder \o line \o <<NL>>]
    ELSE st

\* one iteration of the loop over the lines (udf.go:80-130)
ParseLine(st, line) ==
    IF HasPrefix(line, OldHeaderPrefix)
    THEN Bind(HeaderPath(line), LAMBDA path :
             IF ~(path = <<>> \/ (Len(path) = 1 /\ path[1] = "/"))
             THEN [fileDiffs |-> SaveBlock(st), currentFilePath |-> path,
                   builder |-> line \o <<NL>>, inDiffBlock |-> TRUE]
             ELSE [fileDiffs |-> SaveBlock(st), currentFilePath |-> <<>>,
                   builder |-> <<>>, inDiffBlock |-> FALSE])
    ELSE IF HasPrefix(line, NewHeaderPrefix)
    THEN IF st.inDiffBlock /\ st.currentFilePath # <<>>
         THEN [st EXCEPT !.builder = st.builder \o line \o <<NL>>]
         ELSE st
    ELSE IF st.inDiffBlock /\ st.currentFilePath # <<>>
    THEN [st EXCEPT !.builder = st.builder \o line \o <<NL>>]
    ELSE st

\* the loop over the lines, from line i on
RECURSIVE ParseLines(_, _, _)
ParseLines(st, lines, i) ==
    IF i > Len(lines) THEN st
    ELSE Bind(<<ParseLine(st, lines[i]), i + 1>>, LAMBDA n : ParseLines(n[1], lines, n[2]))

\* the map of file path to per-file diff text; the empty map stands for nil
parseUnifiedDiffString(unifiedDiff) ==
    Bind(Split(unifiedDiff), LAMBDA lines :
        Bind(ParseLines(ParseStart, lines, 1), LAMBDA st : SaveBlock(st)))

(***************************************************************************)
(* github.com/sergi/go-diff/diffmatchpatch, as ApplyUnifiedDiff uses it    *)
(* (udf.go:23-38).  The library is not part of the repository; these       *)
(* definitions follow its published behaviour with the default settings of *)
(* diffmatchpatch.New().                                                   *)
(***************************************************************************)

\* DiffMatchPatch.MatchThreshold = 0.5, in thousandths
MatchThresholdMilli == 500

\* DiffMatchPatch.MatchDistance
MatchDistance == 1000

\* DiffMatchPatch.PatchMargin
PatchMargin == 4

\* DiffMatchPatch.MatchMaxBits
MatchMaxBits == 32

Digits == {"0", "1", "2", "3", "4", "5", "6", "7", "8", "9"}

DigitVal(c) ==
    CASE c = "0" -> 0 [] c = "1" -> 1 [] c = "2" -> 2 [] c = "3" -> 3 [] c = "4" -> 4
      [] c = "5" -> 5 [] c = "6" -> 6 [] c = "7" -> 7 [] c = "8" -> 8 [] c = "9" -> 9

\* strconv.Atoi on the first n characters of a string of digits
RECURSIVE AtoiUpTo(_, _)
AtoiUpTo(s, n) == IF n = 0 THEN 0 ELSE 10 * AtoiUpTo(s, n - 1) + DigitVal(s[n])

\* strconv.Atoi on a string of digits
Atoi(s) == Bind(s, LAMBDA v : AtoiUpTo(v, Len(v)))

\* the length of the longest run of digits of s that starts at position i (1-based)
DigitRun(s, i) ==
    Bind({j \in i..Len(s) : s[j] \notin Digits}, LAMBDA stops :
        IF i > Len(s) THEN 0
        ELSE IF stops = {} THEN Len(s) + 1 - i
        ELSE SetMin(stops) - i)

\* s has the literal lit at position i (1-based)
HasAt(s, i, lit) == i + Len(lit) - 1 <= Len(s) /\ SubSeq(s, i, i + Len(lit) - 1) = lit

\* the match of (\d+),?(\d*) at position p of a line: the two groups and the
\* position after them
MatchCoordinates(line, p) ==
    Bind(DigitRun(line, p), LAMBDA n1 :
        Bind(p + n1 + (IF HasAt(line, p + n1, <<",">>) THEN 1 ELSE 0), LAMBDA p2 :
            Bind(DigitRun(line, p2), LAMBDA n2 :
                [start |-> SubSeq(line, p, p + n1 - 1),
                 len |-> SubSeq(line, p2, p2 + n2 - 1),
                 next |-> p2 + n2])))

\* the match of ^@@ -(\d+),?(\d*) \+(\d+),?(\d*) @@$ on a line: the four groups,
\* or ok = FALSE when the line does not match
MatchPatchHeader(line) ==
    Bind(MatchCoordinates(line, 5), LAMBDA c1 :
        Bind(MatchCoordinates(line, c1.next + 2), LAMBDA c2 :
            IF /\ HasAt(line, 1, <<"@", "@", " ", "-">>)
               /\ Len(c1.start) >= 1
               /\ HasAt(line, c1.next, <<" ", "+">>)
               /\ Len(c2.start) >= 1
               /\ HasAt(line, c2.next, <<" ", "@", "@">>)
               /\ c2.next + 2 = Len(line)
            THEN [ok |-> TRUE, m1 |-> c1.start, m2 |-> c1.len, m3 |-> c2.start, m4 |-> c2.len]
            ELSE [ok |-> FALSE, m1 |-> <<>>, m2 |-> <<>>, m3 |-> <<>>, m4 |-> <<>>]))

\* the start and length fields PatchFromText derives from a coordinate pair
HeaderStart(start, len) == IF len = <<"0">> THEN Atoi(start) ELSE Atoi(start) - 1

HeaderLength(len) == IF len = <<>> THEN 1 ELSE IF len = <<"0">> THEN 0 ELSE Atoi(len)

HexDigits == Digits \cup {"a", "b", "c", "d", "e", "f", "A", "B", "C", "D", "E", "F"}

\* the character a percent escape stands for, for the escapes of the model's alphabet
HexChar(h1, h2) ==
    CASE h1 = "2" /\ h2 \in {"b", "B"} -> "+"
      [] h1 = "2" /\ h2 = "0" -> " "
      [] h1 = "2" /\ h2 = "5" -> "%"
      [] h1 = "0" /\ h2 \in {"a", "A"} -> NL
      [] OTHER -> "?"

\* strings.Replace(line, "+", "%2b", -1), from position i on
RECURSIVE ReplacePlusFrom(_, _)
ReplacePlusFrom(s, i) ==
    IF i > Len(s) THEN <<>>
    ELSE (IF s[i] = "+" THEN <<"%", "2", "b">> ELSE <<s[i]>>) \o ReplacePlusFrom(s, i + 1)

ReplacePlus(s) == Bind(s, LAMBDA v : ReplacePlusFrom(v, 1))

\* every "%" of s is followed by two hexadecimal digits
ValidEscapes(s) ==
    \A i \in 1..Len(s) :
        s[i] = "%" => (i + 2 <= Len(s) /\ s[i + 1] \in HexDigits /\ s[i + 2] \in HexDigits)

RECURSIVE UnescapeFrom(_, _)
UnescapeFrom(s, i) ==
    IF i > Len(s) THEN <<>>
    ELSE IF s[i] = "%" THEN <<HexChar(s[i + 1], s[i + 2])>> \o UnescapeFrom(s, i + 3)
    ELSE IF s[i] = "+" THEN <<" ">> \o UnescapeFrom(s, i + 1)
    ELSE <<s[i]>> \o UnescapeFrom(s, i + 1)

\* url.QueryUnescape with its error dropped: a malformed escape yields ""
QueryUnescape(s) ==
    Bind(s, LAMBDA v : IF ValidEscapes(v) THEN UnescapeFrom(v, 1) ELSE <<>>)

\* the text of one patch line after its sign character
PatchLineText(line) == QueryUnescape(ReplacePlus(Tail(line)))

\* one line of a patch body: b with the line's diff added and ptr advanced, or
\* stopped at the line that ends the body (a header, or a line with no valid
\* sign, which is an error)
PatchBodyLine(b, line) ==
    IF Len(line) = 0 THEN [b EXCEPT !.ptr = b.ptr + 1]
    ELSE IF line[1] = "-"
    THEN [b EXCEPT !.ptr = b.ptr + 1,
                   !.diffs = Append(b.diffs, [op |-> "-", text |-> PatchLineText(line)])]
    ELSE IF line[1] = "+"
    THEN [b EXCEPT !.ptr = b.ptr + 1,
                   !.diffs = Append(b.diffs, [op |-> "+", text |-> PatchLineText(line)])]
    ELSE IF line[1] = " "
    THEN [b EXCEPT !.ptr = b.ptr + 1,
                   !.diffs = Append(b.diffs, [op |-> "=", text |-> PatchLineText(line)])]
    ELSE IF line[1] = "@" THEN [b EXCEPT !.done = TRUE]
    ELSE [b EXCEPT !.done = TRUE, !.err = TRUE]

\* the lines of one patch body of text, from b.ptr (1-based): the diffs read,
\* the position of the line that ended the body, and the error
RECURSIVE PatchBody(_, _)
PatchBody(text, b) ==
    IF b.done \/ b.ptr > Len(text) THEN b
    ELSE Bind(PatchBodyLine(b, text[b.ptr]), LAMBDA n : PatchBody(text, n))

\* the patch of a header h and a body b
PatchOf(h, b) ==
    [diffs |-> b.diffs,
     start1 |-> HeaderStart(h.m1, h.m2), length1 |-> HeaderLength(h.m2),
     start2 |-> HeaderStart(h.m3, h.m4), length2 |-> HeaderLength(h.m4)]

\* one patch of text at p.ptr: its header and its body
NextPatch(text, p) ==
    Bind(MatchPatchHeader(text[p.ptr]), LAMBDA h :
        IF ~h.ok THEN [p EXCEPT !.err = TRUE]
        ELSE Bind(PatchBody(text, [ptr |-> p.ptr + 1, diffs |-> <<>>,
                                   done |-> FALSE, err |-> FALSE]),
                  LAMBDA b :
                      IF b.err THEN [p EXCEPT !.err = TRUE]
                      ELSE [p EXCEPT !.ptr = b.ptr, !.patches = Append(p.patches, PatchOf(h, b))]))

RECURSIVE PatchesFrom(_, _)
PatchesFrom(text, p) ==
    IF p.err \/ p.ptr > Len(text) THEN [patches |-> p.patches, err |-> p.err]
    ELSE Bind(NextPatch(text, p), LAMBDA n : PatchesFrom(text, n))

\* DiffMatchPatch.PatchFromText
PatchFromText(textline) ==
    IF Len(textline) = 0 THEN [patches |-> <<>>, err |-> FALSE]
    ELSE Bind(Split(textline), LAMBDA text :
             PatchesFrom(text, [ptr |-> 1, patches |-> <<>>, err |-> FALSE]))

\* the four padding characters string(rune(1)) .. string(rune(4)) of PatchAddPadding
NullPadding == <<"^A", "^B", "^C", "^D">>

Abs(n) == IF n < 0 THEN -n ELSE n

\* matchBitapScore(e, x, loc, pattern), multiplied by MatchDistance * len(pattern)
\* so that it stays an integer (m is len(pattern))
BitapScore(e, x, loc, m) == e * MatchDistance + Abs(loc - x) * m

\* MatchThreshold on the scale of BitapScore
BitapThreshold(m) == (MatchThresholdMilli * MatchDistance * m) \div 1000

\* indexOf(str, pattern, i) of the library
IndexOfFrom(str, pattern, i) ==
    IF i > Len(str) - 1 THEN -1
    ELSE IF i <= 0 THEN Index(str, pattern)
    ELSE Bind(Index(Slice(str, i, Len(str)), pattern), LAMBDA ind :
             IF ind = -1 THEN -1 ELSE ind + i)

\* lastIndexOf(str, pattern, i) of the library (one-byte characters)
LastIndexOfUpTo(str, pattern, i) ==
    IF i < 0 THEN -1
    ELSE IF i >= Len(str) THEN LastIndex(str, pattern)
    ELSE LastIndex(Slice(str, 0, i + 1), pattern)

\* MatchAlphabet: the bit positions of character c in the pattern; a bit mask
\* is the set of its one bits, restricted to the len(pattern) low bits
AlphabetMask(pattern, c) ==
    {Len(pattern) - i : i \in {k \in 1..Len(pattern) : pattern[k] = c}}

\* (mask << 1) | 1 on the low m bits
ShiftOne(mask, m) == {i + 1 : i \in {k \in mask : k + 1 < m}} \cup {0}

\* an entry of a bit array, 0 where the array has no such entry
RdAt(rd, j) == IF j \in DOMAIN rd THEN rd[j] ELSE {}

\* the binary search of MatchBitap for how far from loc a match may stray at
\* error level c.d: the final binMid
RECURSIVE BitapBinSearch(_, _)
BitapBinSearch(c, b) ==
    IF b.binMin < b.binMid
    THEN Bind(IF BitapScore(c.d, c.loc + b.binMid, c.loc, c.m) <= c.thr
              THEN [b EXCEPT !.binMin = b.binMid,
                             !.binMid = (b.binMax - b.binMid) \div 2 + b.binMid]
              ELSE [b EXCEPT !.binMax = b.binMid,
                             !.binMid = (b.binMid - b.binMin) \div 2 + b.binMin],
              LAMBDA n : BitapBinSearch(c, n))
    ELSE b.binMid

\* rd[j] of MatchBitap at error level c.d
BitapCell(c, rd, j) ==
    Bind(ShiftOne(RdAt(rd, j + 1), Len(c.pattern))
             \cap (IF Len(c.text) <= j - 1 THEN {} ELSE AlphabetMask(c.pattern, c.text[j])),
         LAMBDA exact :
             IF c.d = 0 THEN exact
             ELSE exact
                  \cup ShiftOne(RdAt(c.lastRd, j + 1) \cup RdAt(c.lastRd, j), Len(c.pattern))
                  \cup RdAt(c.lastRd, j + 1))

\* one step of the scan of MatchBitap at one error level, at position s.j
BitapScanStep(c, s, val) ==
    IF (Len(c.pattern) - 1) \in val
       /\ BitapScore(c.d, s.j - 1, c.loc, Len(c.pattern)) <= s.thr
    THEN IF s.j - 1 > c.loc
         THEN [j |-> s.j - 1, start |-> Max(1, 2 * c.loc - (s.j - 1)),
               rd |-> [s.rd EXCEPT ![s.j] = val],
               thr |-> BitapScore(c.d, s.j - 1, c.loc, Len(c.pattern)),
               best |-> s.j - 1, done |-> FALSE]
         ELSE [j |-> s.j - 1, start |-> s.start,
               rd |-> [s.rd EXCEPT ![s.j] = val],
               thr |-> BitapScore(c.d, s.j - 1, c.loc, Len(c.pattern)),
               best |-> s.j - 1, done |-> TRUE]
    ELSE [s EXCEPT !.j = s.j - 1, !.rd = [s.rd EXCEPT ![s.j] = val]]

\* the scan of MatchBitap at one error level, from s.j down to s.start
RECURSIVE BitapScan(_, _)
BitapScan(c, s) ==
    IF s.done \/ s.j < s.start THEN s
    ELSE CHOOSE r \in {BitapScan(c, n) : n \in {BitapScanStep(c, s, BitapCell(c, s.rd, s.j))}} : TRUE

\* the bit array of an error level before its scan: finish+2 entries, the last
\* one (1 << d) - 1
BitapFreshRd(finish, d, m) ==
    [x \in 1..(finish + 1) |-> IF x = finish + 1 THEN {i \in 0..(m - 1) : i < d} ELSE {}] \o <<>>

\* one error level of MatchBitap: the level's scan, from the state l the
\* previous levels left
BitapLevel(text, pattern, loc, l) ==
    Bind(BitapBinSearch([d |-> l.d, loc |-> loc, m |-> Len(pattern), thr |-> l.thr],
                        [binMin |-> 0, binMid |-> l.binMax, binMax |-> l.binMax]),
         LAMBDA binMid :
             Bind(Min(loc + binMid, Len(text)) + Len(pattern), LAMBDA finish :
                 Bind(BitapScan([text |-> text, pattern |-> pattern, loc |-> loc,
                                 d |-> l.d, lastRd |-> l.lastRd],
                                [j |-> finish, start |-> Max(1, loc - binMid + 1),
                                 rd |-> BitapFreshRd(finish, l.d, Len(pattern)),
                                 thr |-> l.thr, best |-> l.best, done |-> FALSE]),
                      LAMBDA scan :
                          [d |-> l.d + 1, binMax |-> binMid, lastRd |-> scan.rd,
                           thr |-> scan.thr, best |-> scan.best,
                           done |-> BitapScore(l.d + 1, loc, loc, Len(pattern)) > scan.thr])))

\* the loop of MatchBitap over the error levels d
RECURSIVE BitapLevels(_, _, _, _)
BitapLevels(text, pattern, loc, l) ==
    IF l.done \/ l.d >= Len(pattern) THEN l.best
    ELSE Bind(BitapLevel(text, pattern, loc, l), LAMBDA n : BitapLevels(text, pattern, loc, n))

\* the score threshold of MatchBitap after its search for an exact match
BitapFirstThreshold(text, pattern, loc) ==
    Bind(IndexOfFrom(text, pattern, loc), LAMBDA fwd :
        IF fwd = -1 THEN BitapThreshold(Len(pattern))
        ELSE Bind(Min(BitapScore(0, fwd, loc, Len(pattern)), BitapThreshold(Len(pattern))),
                  LAMBDA thr1 :
                      Bind(LastIndexOfUpTo(text, pattern, loc + Len(pattern)), LAMBDA bwd :
                          IF bwd = -1 THEN thr1
                          ELSE Min(BitapScore(0, bwd, loc, Len(pattern)), thr1))))

\* DiffMatchPatch.MatchBitap
MatchBitap(text, pattern, loc) ==
    BitapLevels(text, pattern, loc,
                [d |-> 0, binMax |-> Len(pattern) + Len(text), lastRd |-> <<>>,
                 thr |-> BitapFirstThreshold(text, pattern, loc), best |-> -1,
                 done |-> FALSE])

\* DiffMatchPatch.MatchMain
MatchMain(text, pattern, loc0) ==
    Bind(Max(0, Min(loc0, Len(text))), LAMBDA loc :
        IF text = pattern THEN 0
        ELSE IF Len(text) = 0 THEN -1
        ELSE IF loc + Len(pattern) <= Len(text) /\ Slice(text, loc, loc + Len(pattern)) = pattern
        THEN loc
        ELSE MatchBitap(text, pattern, loc))

\* the texts of the diffs from i on whose operation is not skip, concatenated
RECURSIVE DiffTextFrom(_, _, _)
DiffTextFrom(diffs, i, skip) ==
    IF i > Len(diffs) THEN <<>>
    ELSE (IF diffs[i].op # skip THEN diffs[i].text ELSE <<>>) \o DiffTextFrom(diffs, i + 1, skip)

\* DiffMatchPatch.DiffText1: the source text of a patch (equalities and deletions)
DiffText1(diffs) == Bind(diffs, LAMBDA d : DiffTextFrom(d, 1, "+"))

\* DiffMatchPatch.DiffText2: the destination text (equalities and insertions)
DiffText2(diffs) == Bind(diffs, LAMBDA d : DiffTextFrom(d, 1, "-"))

\* PatchAddPadding, the padding at the start of the first patch
PadFirst(patch) ==
    IF Len(patch.diffs) = 0 \/ patch.diffs[1].op # "="
    THEN [patch EXCEPT !.diffs = <<[op |-> "=", text |-> NullPadding]>> \o patch.diffs,
                       !.start1 = patch.start1 - PatchMargin,
                       !.start2 = patch.start2 - PatchMargin,
                       !.length1 = patch.length1 + PatchMargin,
                       !.length2 = patch.length2 + PatchMargin]
    ELSE IF PatchMargin > Len(patch.diffs[1].text)
    THEN Bind(PatchMargin - Len(patch.diffs[1].text), LAMBDA extra :
             [patch EXCEPT !.diffs[1].text =
                               SubSeq(NullPadding, PatchMargin - extra + 1, PatchMargin)
                                   \o patch.diffs[1].text,
                           !.start1 = patch.start1 - extra,
                           !.start2 = patch.start2 - extra,
                           !.length1 = patch.length1 + extra,
                           !.length2 = patch.length2 + extra])
    ELSE patch

\* PatchAddPadding, the padding at the end of the last patch
PadLast(patch) ==
    IF Len(patch.diffs) = 0 \/ patch.diffs[Len(patch.diffs)].op # "="
    THEN [patch EXCEPT !.diffs = Append(patch.diffs, [op |-> "=", text |-> NullPadding]),
                       !.length1 = patch.length1 + PatchMargin,
                       !.length2 = patch.length2 + PatchMargin]
    ELSE IF PatchMargin > Len(patch.diffs[Len(patch.diffs)].text)
    THEN Bind(PatchMargin - Len(patch.diffs[Len(patch.diffs)].text), LAMBDA extra :
             [patch EXCEPT !.diffs[Len(patch.diffs)].text =
                               patch.diffs[Len(patch.diffs)].text \o SubSeq(NullPadding, 1, extra),
                           !.length1 = patch.length1 + extra,
                           !.length2 = patch.length2 + extra])
    ELSE patch

\* PatchAddPadding, the shift of every patch by the padding length
BumpPatch(patch) ==
    [patch EXCEPT !.start1 = patch.start1 + PatchMargin,
                  !.start2 = patch.start2 + PatchMargin]

\* DiffMatchPatch.PatchAddPadding: the patches as it leaves them
PatchAddPadding(patches) ==
    Bind([i \in 1..Len(patches) |-> BumpPatch(patches[i])] \o <<>>, LAMBDA bumped :
        Bind(PadFirst(bumped[1]), LAMBDA head :
            Bind([bumped EXCEPT ![1] = head], LAMBDA first :
                Bind(PadLast(first[Len(first)]), LAMBDA last :
                    [first EXCEPT ![Len(first)] = last]))))

\* PatchSplitMax leaves a patch alone when its Length1 is at most MatchMaxBits;
\* the model follows PatchApply exactly for such patches only
WithinMatchBits(patch) ==
    patch.length1 <= MatchMaxBits /\ Len(DiffText1(patch.diffs)) <= MatchMaxBits

\* PatchApply on one patch whose source text text1 MatchMain found at startLoc
\* of a.text (-1: not found)
PatchApplyAt(aPatch, a, text1, startLoc) ==
    IF startLoc = -1
    THEN [a EXCEPT !.x = a.x + 1,
                   !.delta = a.delta - (aPatch.length2 - aPatch.length1),
                   !.results = Append(a.results, FALSE)]
    ELSE IF text1 = Slice(a.text, startLoc, Min(startLoc + Len(text1), Len(a.text)))
    THEN [a EXCEPT !.x = a.x + 1,
                   !.delta = startLoc - (aPatch.start2 + a.delta),
                   !.text = Slice(a.text, 0, startLoc) \o DiffText2(aPatch.diffs)
                                \o Slice(a.text, startLoc + Len(text1), Len(a.text)),
                   !.results = Append(a.results, TRUE)]
    ELSE [a EXCEPT !.results = Append(a.results, TRUE), !.exact = FALSE]

\* PatchApply on one patch
PatchApplyOne(aPatch, a) ==
    IF ~WithinMatchBits(aPatch) THEN [a EXCEPT !.exact = FALSE]
    ELSE Bind(DiffText1(aPatch.diffs), LAMBDA text1 :
             Bind(MatchMain(a.text, text1, aPatch.start2 + a.delta), LAMBDA startLoc :
                 PatchApplyAt(aPatch, a, text1, startLoc)))

\* the loop of PatchApply over the patches, from patch a.x (1-based).  exact is
\* FALSE when the loop met a patch the model does not follow: one matched
\* imperfectly (the library then edits the text along a diff of the expected
\* and the found text) or one PatchSplitMax would split; results then holds
\* the outcomes up to and including that patch, and text is not the library's.
RECURSIVE PatchApplyFrom(_, _)
PatchApplyFrom(patches, a) ==
    IF ~a.exact \/ a.x > Len(patches) THEN a
    ELSE Bind(PatchApplyOne(patches[a.x], a), LAMBDA n : PatchApplyFrom(patches, n))

\* DiffMatchPatch.PatchApply
PatchApply(patches, text) ==
    IF Len(patches) = 0 THEN [text |-> text, results |-> <<>>, exact |-> TRUE]
    ELSE Bind(PatchAddPadding(patches), LAMBDA padded :
             Bind(PatchApplyFrom(padded, [x |-> 1, delta |-> 0,
                                          text |-> NullPadding \o text \o NullPadding,
                                          results |-> <<>>, exact |-> TRUE]),
                  LAMBDA r :
                      [text |-> Slice(r.text, PatchMargin, Len(r.text) - PatchMargin),
                       results |-> r.results, exact |-> r.exact]))

(***************************************************************************)
(* udf.go: ApplyUnifiedDiff                                                *)
(***************************************************************************)
Chars(s) == {s[i] : i \in DOMAIN s}

PatchChars(diffs) == UNION {Chars(diffs[i].text) : i \in DOMAIN diffs}

AllPatchChars(patches) == UNION {PatchChars(patches[i].diffs) : i \in DOMAIN patches}

\* the returns of ApplyUnifiedDiff when PatchApply patched the text as r says:
\* udf.go:55-58 returns string(results[0]), the first byte of the patched
\* text, and indexing the empty text panics
FirstByteReturn(text) ==
    IF Len(text) = 0 THEN [content |-> <<>>, err |-> "panic"]
    ELSE [content |-> <<text[1]>>, err |-> "nil"]

MismatchReturn == [content |-> <<>>, err |-> "mismatch"]

\* The possible returns of ApplyUnifiedDiff(originalContent, unifiedDiff): one
\* [content, err] record, err being "nil", "parse" (udf.go:28), "mismatch"
\* (udf.go:52) or "panic".  Where PatchApply matched a patch imperfectly the model
\* knows that the patch succeeded but not the text the library produced, and the
\* set then holds every return that text and the later patches could lead to.
ApplyUnifiedDiffWith(originalContent, patches) ==
    Bind(PatchApply(patches, originalContent), LAMBDA r :
        IF \E i \in DOMAIN r.results : ~r.results[i] THEN {MismatchReturn}
        ELSE IF r.exact THEN {FirstByteReturn(r.text)}
        ELSE {FirstByteReturn(<<c>>) : c \in Chars(originalContent) \cup AllPatchChars(patches)}
             \cup {FirstByteReturn(<<>>)}
             \cup (IF Len(r.results) < Len(patches) THEN {MismatchReturn} ELSE {}))

\* a variant of ApplyUnifiedDiff without the return of udf.go:31-34
ApplyUnifiedDiff_NoShortcut(originalContent, unifiedDiff) ==
    Bind(PatchFromText(unifiedDiff), LAMBDA parsed :
        IF parsed.err THEN {[content |-> <<>>, err |-> "parse"]}
        ELSE ApplyUnifiedDiffWith(originalContent, parsed.patches))

ApplyUnifiedDiff(originalContent, unifiedDiff) ==
    Bind(PatchFromText(unifiedDiff), LAMBDA parsed :
        IF parsed.err THEN {[content |-> <<>>, err |-> "parse"]}
        ELSE IF Len(parsed.patches) = 0 THEN {[content |-> originalContent, err |-> "nil"]}
        ELSE ApplyUnifiedDiffWith(originalContent, parsed.patches))

(***************************************************************************)
(* The file system as the os package shows it to the engine.  A path holds *)
(* one of: nothing ("absent"), a writable file ("file"), a file that can   *)
(* be read but not opened for writing ("readonly"), a directory ("dir"),   *)
(* or an entry below a directory the process may not search ("noaccess").  *)
(***************************************************************************)
Absent == [kind |-> "absent", content |-> <<>>]

File(content) == [kind |-> "file", content |-> content]

\* what a path holds; a path the disk does not list holds nothing
FileAt(d, path) == IF path \in DOMAIN d THEN d[path] ELSE Absent

\* a variant of ReadFile that reads a missing file as an empty one
ReadFile_AbsentIsEmpty(d, path) ==
    CASE FileAt(d, path).kind \in {"file", "readonly", "absent"} ->
             [ok |-> TRUE, notExist |-> FALSE, content |-> FileAt(d, path).content]
      [] OTHER -> [ok |-> FALSE, notExist |-> FALSE, content |-> <<>>]

\* os.ReadFile: the content, or an error that os.IsNotExist recognises or not
ReadFile(d, path) ==
    CASE FileAt(d, path).kind \in {"file", "readonly"} ->
             [ok |-> TRUE, notExist |-> FALSE, content |-> FileAt(d, path).content]
      [] FileAt(d, path).kind = "absent" ->
             [ok |-> FALSE, notExist |-> TRUE, content |-> <<>>]
      [] OTHER -> [ok |-> FALSE, notExist |-> FALSE, content |-> <<>>]

\* os.WriteFile(path, data, 0644): creates or truncates the file and writes
\* data; a path that cannot be opened for writing is left as it is
WriteFile(d, path, data) ==
    IF FileAt(d, path).kind \in {"absent", "file"}
    THEN [ok |-> TRUE, disk |-> [q \in (DOMAIN d) \cup {path} |->
                                    IF q = path THEN File(data) ELSE d[q]]]
    ELSE [ok |-> FALSE, disk |-> d]

\* a variant of Stat whose caller takes a missing file for a failure
Stat_AbsentIsError(d, path) ==
    CASE FileAt(d, path).kind \in {"absent", "noaccess"} -> "error"
      [] OTHER -> "ok"

\* os.Stat: "ok", "notexist" (os.IsNotExist holds of the error) or "error"
Stat(d, path) ==
    CASE FileAt(d, path).kind = "absent" -> "notexist"
      [] FileAt(d, path).kind = "noaccess" -> "error"
      [] OTHER -> "ok"

\* one entry of the log of what a call did: the operation ("read", "apply",
\* "stat" or "write"), the path, whether it succeeded, and the content read,
\* produced or written
Event(op, path, ok, data) == [op |-> op, path |-> path, ok |-> ok, data |-> data]

(***************************************************************************)
(* udf.go: ApplyChangesToFiles, one iteration of its loop over the map     *)
(***************************************************************************)
\* what one iteration leaves: the error it returned ("nil": none, the loop
\* goes on), the disk, and the steps it took
Outcome(err, d, events) == [err |-> err, disk |-> d, events |-> events]

\* a variant of ApplyFailed that lets every return of ApplyUnifiedDiff pass
ApplyFailed_Never(r) == FALSE

\* udf.go:183: ApplyUnifiedDiff returned an error
ApplyFailed(r) == r.err # "nil"

\* udf.go:182-196: the iteration from ApplyUnifiedDiff's return r on, after
\* the read of content; a panic inside ApplyUnifiedDiff ends the process there
AfterApply(d, filePath, content, r) ==
    IF r.err = "panic"
    THEN Outcome("panic", d, <<Event("read", filePath, TRUE, content),
                               Event("apply", filePath, FALSE, <<>>)>>)
    ELSE IF ApplyFailed(r)
    THEN Outcome("apply", d, <<Event("read", filePath, TRUE, content),
                               Event("apply", filePath, FALSE, <<>>)>>)
    ELSE Bind(WriteFile(d, filePath, r.content), LAMBDA w :
             Outcome(IF w.ok THEN "nil" ELSE "write", w.disk,
                     <<Event("read", filePath, TRUE, content),
                       Event("apply", filePath, r.err = "nil", r.content),
                       Event("write", filePath, w.ok, r.content)>>))

\* udf.go:169-177: the error of a failed os.ReadFile
ReadError(rd) == IF rd.notExist THEN "notfound" ELSE "read"

\* udf.go:166-196: the possible outcomes of the iteration for filePath
ProcessFile(d, filePath, diffContent) ==
    Bind(ReadFile(d, filePath), LAMBDA rd :
        IF ~rd.ok THEN {Outcome(ReadError(rd), d, <<Event("read", filePath, FALSE, <<>>)>>)}
        ELSE {AfterApply(d, filePath, rd.content, r) :
                  r \in ApplyUnifiedDiff(rd.content, diffContent)})

(***************************************************************************)
(* utils/marker.go and fullText.go                                         *)
(***************************************************************************)
BeginMarkerPrefix == <<"-", "-", "-", " ", "B", "E", "G", "I", "N", "_", "O", "F", "_", "F", "I", "L", "E", ":">>

BeginMarkerSuffix == <<" ", "-", "-", "-", NL>>

EndMarkerPrefix == <<NL, "-", "-", "-", " ", "E", "N", "D", "_", "O", "F", "_", "F", "I", "L", "E", ":", " ">>

EndMarkerSuffix == <<" ", "-", "-", "-", NL>>

\* fullText.go:70: the end of the end marker when its newline is missing
EndMarkerSuffixNoNewline == <<" ", "-", "-", "-">>

\* fullText.go:27
fullTextPath == <<"/", "t", "m", "p", "/", "f", "u", "l", "l", "T", "e", "x", "t", "C", "h", "a", "n", "g", "e", "s", ".", "t", "x", "t">>

\* the grave accent, which a string of the module cannot hold
BackTick == "BT"

\* fullText.go:140: the prefix of a code fence line
Fence == <<BackTick, BackTick, BackTick>>

\* a variant of cleanAIMarkdown that trims the response and keeps its fences
cleanAIMarkdown_FencesKept(response) == TrimSpace(response)

\* fullText.go:129-147
cleanAIMarkdown(response) ==
    Bind(TrimSpace(response), LAMBDA trimmed :
        Bind(Split(trimmed), LAMBDA lines :
            IF Len(lines) < 2 THEN trimmed
            ELSE IF HasPrefix(lines[1], Fence) /\ HasPrefix(lines[Len(lines)], Fence)
            THEN TrimSpace(Join(SubSeq(lines, 2, Len(lines) - 1)))
            ELSE trimmed))

\* sanitizeResponse of the earlier ApplyChangesToFiles: a response that starts
\* with a fence loses its first and its last line, whatever the last line is;
\* lines[1:len(lines)-1] panics when the response is a single line
sanitizeResponse(response) ==
    IF HasPrefix(response, Fence)
    THEN Bind(Split(response), LAMBDA lines :
             IF Len(lines) < 2 THEN [panic |-> TRUE, text |-> <<>>]
             ELSE [panic |-> FALSE, text |-> Join(SubSeq(lines, 2, Len(lines) - 1))])
    ELSE [panic |-> FALSE, text |-> response]

\* the scan found no further block (fullText.go:42, 53, 84)
NoBlock == [found |-> FALSE, filePath |-> <<>>, fileContent |-> <<>>, rest |-> <<>>]

\* a variant of FindEndMarker that takes the first end marker in either form
FindEndMarker_FirstOfEither(segment, filePath) ==
    [index |-> Index(segment, EndMarkerPrefix \o filePath \o EndMarkerSuffixNoNewline),
     len |-> IF Index(segment, EndMarkerPrefix \o filePath \o EndMarkerSuffixNoNewline)
                    = Index(segment, EndMarkerPrefix \o filePath \o EndMarkerSuffix)
             THEN Len(EndMarkerPrefix) + Len(filePath) + Len(EndMarkerSuffix)
             ELSE Len(EndMarkerPrefix) + Len(filePath) + Len(EndMarkerSuffixNoNewline)]

\* fullText.go:62-76: where the end marker of filePath starts in segment and
\* how long the marker found is; index -1 when neither form occurs
FindEndMarker(segment, filePath) ==
    Bind(Index(segment, EndMarkerPrefix \o filePath \o EndMarkerSuffix), LAMBDA full :
        IF full # -1
        THEN [index |-> full, len |-> Len(EndMarkerPrefix) + Len(filePath) + Len(EndMarkerSuffix)]
        ELSE [index |-> Index(segment, EndMarkerPrefix \o filePath \o EndMarkerSuffixNoNewline),
              len |-> Len(EndMarkerPrefix) + Len(filePath) + Len(EndMarkerSuffixNoNewline)])

\* a variant of BlockAt that goes on with the text from the end marker on
BlockAt_MarkerKept(rem, pathStart, pathEnd) ==
    Bind(<<TrimSpace(Slice(rem, pathStart, pathStart + pathEnd)),
           pathStart + pathEnd + Len(BeginMarkerSuffix)>>,
         LAMBDA b :
             Bind(FindEndMarker(Slice(rem, b[2], Len(rem)), b[1]), LAMBDA e :
                 IF e.index = -1 THEN NoBlock
                 ELSE [found |-> TRUE, filePath |-> b[1],
                       fileContent |-> Slice(rem, b[2], b[2] + e.index),
                       rest |-> Slice(rem, b[2] + e.index, Len(rem))]))

\* a variant of BlockAt that trims the content of the block
BlockAt_ContentTrimmed(rem, pathStart, pathEnd) ==
    Bind(<<TrimSpace(Slice(rem, pathStart, pathStart + pathEnd)),
           pathStart + pathEnd + Len(BeginMarkerSuffix)>>,
         LAMBDA b :
             Bind(FindEndMarker(Slice(rem, b[2], Len(rem)), b[1]), LAMBDA e :
                 IF e.index = -1 THEN NoBlock
                 ELSE [found |-> TRUE, filePath |-> b[1],
                       fileContent |-> TrimSpace(Slice(rem, b[2], b[2] + e.index)),
                       rest |-> Slice(rem, b[2] + e.index + e.len, Len(rem))]))

\* a variant of BlockAt that lets a block without end marker run to the end
\* of the response
BlockAt_OpenRunsToEnd(rem, pathStart, pathEnd) ==
    Bind(<<TrimSpace(Slice(rem, pathStart, pathStart + pathEnd)),
           pathStart + pathEnd + Len(BeginMarkerSuffix)>>,
         LAMBDA b :
             Bind(FindEndMarker(Slice(rem, b[2], Len(rem)), b[1]), LAMBDA e :
                 IF e.index = -1
                 THEN [found |-> TRUE, filePath |-> b[1],
                       fileContent |-> Slice(rem, b[2], Len(rem)), rest |-> <<>>]
                 ELSE [found |-> TRUE, filePath |-> b[1],
                       fileContent |-> Slice(rem, b[2], b[2] + e.index),
                       rest |-> Slice(rem, b[2] + e.index + e.len, Len(rem))]))

\* fullText.go:56-88 and 114: the block whose path starts at pathStart and ends
\* pathEnd characters later
BlockAt(rem, pathStart, pathEnd) ==
    Bind(<<TrimSpace(Slice(rem, pathStart, pathStart + pathEnd)),
           pathStart + pathEnd + Len(BeginMarkerSuffix)>>,
         LAMBDA b :
             Bind(FindEndMarker(Slice(rem, b[2], Len(rem)), b[1]), LAMBDA e :
                 IF e.index = -1 THEN NoBlock
                 ELSE [found |-> TRUE, filePath |-> b[1],
                       fileContent |-> Slice(rem, b[2], b[2] + e.index),
                       rest |-> Slice(rem, b[2] + e.index + e.len, Len(rem))]))

\* a variant of NextFileBlock that takes the rest of the response for the
\* path when the begin marker has no suffix, and writes an empty file there
NextFileBlock_PathRunsToEnd(rem) ==
    Bind(Index(rem, BeginMarkerPrefix), LAMBDA beginIndex :
        IF beginIndex = -1 THEN NoBlock
        ELSE Bind(Index(Slice(rem, beginIndex + Len(BeginMarkerPrefix), Len(rem)),
                        BeginMarkerSuffix),
                  LAMBDA pathEnd :
                      IF pathEnd = -1
                      THEN [found |-> TRUE,
                            filePath |-> TrimSpace(Slice(rem, beginIndex + Len(BeginMarkerPrefix),
                                                         Len(rem))),
                            fileContent |-> <<>>, rest |-> <<>>]
                      ELSE BlockAt(rem, beginIndex + Len(BeginMarkerPrefix), pathEnd)))

\* fullText.go:40-88: the next block of the remaining response
NextFileBlock(rem) ==
    Bind(Index(rem, BeginMarkerPrefix), LAMBDA beginIndex :
        IF beginIndex = -1 THEN NoBlock
        ELSE Bind(Index(Slice(rem, beginIndex + Len(BeginMarkerPrefix), Len(rem)),
                        BeginMarkerSuffix),
                  LAMBDA pathEnd :
                      IF pathEnd = -1 THEN NoBlock
                      ELSE BlockAt(rem, beginIndex + Len(BeginMarkerPrefix), pathEnd)))

\* a variant of WriteBlock that goes on to the next block after a failure
WriteBlock_ErrorsDropped(d, b) ==
    Bind(WriteFile(d, b.filePath, b.fileContent), LAMBDA w :
        Outcome("nil", w.disk, <<Event("stat", b.filePath, Stat(d, b.filePath) # "error", <<>>),
                                 Event("write", b.filePath, w.ok, b.fileContent)>>))

\* fullText.go:97-111: the check and the write of one block
WriteBlock(d, b) ==
    Bind(Stat(d, b.filePath), LAMBDA st :
        IF st = "error" THEN Outcome("stat", d, <<Event("stat", b.filePath, FALSE, <<>>)>>)
        ELSE Bind(WriteFile(d, b.filePath, b.fileContent), LAMBDA w :
                 Outcome(IF w.ok THEN "nil" ELSE "write", w.disk,
                         <<Event("stat", b.filePath, TRUE, <<>>),
                           Event("write", b.filePath, w.ok, b.fileContent)>>)))

(***************************************************************************)
(* The state of one call of the engine.                                    *)
(***************************************************************************)
VARIABLES
    pc,                 \* where the call stands: "call", "loop", "scan" or "done"
    input,              \* the function called and its arguments
    ret,                \* what the call returned, err = "running" until it does
    disk,               \* the file system now: path -> [kind, content]
    disk0,              \* the file system when the call started
    fileDiffs,          \* ApplyChangesToFiles: the parsed map, path -> diff text
    pending,            \* ApplyChangesToFiles: the keys the range loop has not visited
    remainingResponse,  \* ApplyFullTextChangesToFiles: the text still to scan
    foundAnyFile,       \* ApplyFullTextChangesToFiles: a block was written
    log                 \* the reads, applications, checks and writes so far, in order

vars == <<pc, input, ret, disk, disk0, fileDiffs, pending, remainingResponse,
          foundAnyFile, log>>

Running == [err |-> "running", content |-> <<>>, path |-> <<>>]

Returned(err, content, path) == [err |-> err, content |-> content, path |-> path]

\* all sequences over S of length at most n
SeqsUpTo(S, n) == UNION {[1..k -> S] : k \in 0..n}

\* the text made of the given lines, each ended by a line terminator
RECURSIVE LinesFrom(_, _)
LinesFrom(ls, i) == IF i > Len(ls) THEN <<>> ELSE ls[i] \o <<NL>> \o LinesFrom(ls, i + 1)

Lines(ls) == Bind(ls, LAMBDA v : LinesFrom(v, 1))

\* the concatenation of a sequence of sequences
RECURSIVE ConcatFrom(_, _)
ConcatFrom(ss, i) == IF i > Len(ss) THEN <<>> ELSE ss[i] \o ConcatFrom(ss, i + 1)

Concat(ss) == Bind(ss, LAMBDA v : ConcatFrom(v, 1))

(***************************************************************************)
(* SpecUD: one call of ApplyUnifiedDiff on bounded inputs.                 *)
(***************************************************************************)
\* the longest diff text, in lines
MaxDiffLines == 3

HunkHeader == <<"@", "@", " ", "-", "1", ",", "2", " ", "+", "1", ",", "3", " ", "@", "@">>

ContextA == <<" ", "a">>

ContextB == <<" ", "b">>

AddN == <<"+", "n">>

DeleteB == <<"-", "b">>

\* a deletion no text of the model comes near
DeleteZs == <<"-", "z", "z", "z", "z", "z", "z", "z", "z", "z">>

Garbage == <<"g", "a", "r", "b", "a", "g", "e">>

DiffLineVocab == {HunkHeader, ContextA, ContextB, AddN, DeleteB, DeleteZs, Garbage}

\* two hunks, the second one reached after the first one applied
TwoHunks == Lines(<<HunkHeader, ContextA, AddN, HunkHeader, ContextB, AddN>>)

\* two hunks, the second one with nothing to match
TwoHunksSecondOff == Lines(<<HunkHeader, ContextA, AddN, HunkHeader, DeleteZs>>)

DiffTexts ==
    {Lines(ls) : ls \in SeqsUpTo(DiffLineVocab, MaxDiffLines)} \cup {TwoHunks, TwoHunksSecondOff}

Originals == {<<>>, <<"a">>, <<"a", "b">>, <<"a", "x">>, <<"b", "a">>, <<"a", NL, "b", NL>>}

NoDisk == [p \in {} |-> Absent]

\* the arguments of a call
Args(fn, originalContent, unifiedDiff, fullTextResponse) ==
    [fn |-> fn, originalContent |-> originalContent, unifiedDiff |-> unifiedDiff,
     fullTextResponse |-> fullTextResponse]

\* the state at the start of a call with arguments in and file system d
Start(in, d) ==
    /\ pc = "call"
    /\ input = in
    /\ ret = Running
    /\ disk = d
    /\ disk0 = d
    /\ fileDiffs = EmptyMap
    /\ pending = {}
    /\ remainingResponse = <<>>
    /\ foundAnyFile = FALSE
    /\ log = <<>>

InitUD ==
    \E o \in Originals, d \in DiffTexts :
        Start(Args("ApplyUnifiedDiff", o, d, <<>>), NoDisk)

\* udf.go:18-59
CallApplyUnifiedDiff ==
    /\ pc = "call"
    /\ input.fn = "ApplyUnifiedDiff"
    /\ \E r \in ApplyUnifiedDiff(input.originalContent, input.unifiedDiff) :
           ret' = Returned(r.err, r.content, <<>>)
    /\ pc' = "done"
    /\ UNCHANGED <<input, disk, disk0, fileDiffs, pending, remainingResponse,
                   foundAnyFile, log>>

NextUD == CallApplyUnifiedDiff

SpecUD == InitUD /\ [][NextUD]_vars

(***************************************************************************)
(* Spec: one call of ApplyChangesToFiles or ApplyFullTextChangesToFiles on *)
(* a bounded response and a small file system.                              *)
(***************************************************************************)
\* the most blocks a response is made of
MaxUnits == 2

PathX == <<"/", "x">>

PathY == <<"/", "y">>

\* what the files of the model hold before the call
OldContent == <<"a", "b">>

\* the file section of a unified diff for path: the two header lines, then body
Section(path, body) ==
    <<OldHeaderPrefix \o Tail(path), NewHeaderPrefix \o Tail(path)>> \o body

\* a hunk that OldContent matches exactly
GoodHunk == <<HunkHeader, ContextA, AddN, ContextB>>

\* a hunk that matches no content of the model
MismatchHunk == <<HunkHeader, DeleteZs>>

Prose == <<"h", "e", "l", "l", "o">>

\* an old-file header line without a path (udf.go:99)
HeaderNoPath == <<"-", "-", "-", " ", "a", "/">>

\* the blocks a diff response is made of, each a sequence of lines
DiffBlocks ==
    {Section(PathX, GoodHunk), Section(PathY, GoodHunk), Section(PathX, MismatchHunk),
     Section(PathY, <<>>), <<Prose>>, <<HeaderNoPath>>}

\* a new-file header line that no old-file header precedes (udf.go:117-122)
LoneNewHeader == NewHeaderPrefix \o Tail(PathX)

BlankLine == <<>>

\* the blocks of a response that holds no file section
NoSectionBlocks == {<<BlankLine>>, <<LoneNewHeader>>, <<LoneNewHeader, HunkHeader, AddN>>}

NoSectionResponses == {Lines(Concat(bs)) : bs \in SeqsUpTo(NoSectionBlocks, MaxUnits)}

\* the opening line of a markdown code fence that names the language
FenceDiff == Fence \o <<"d", "i", "f", "f">>

\* a diff inside a markdown code fence, with or without a line terminator
\* after the closing fence
FencedDiffs(diff) == {FenceDiff \o <<NL>> \o diff \o Fence \o end : end \in {<<>>, <<NL>>}}

\* the file sections of the wrapped responses
WrappedBlocks == {Section(PathX, GoodHunk), Section(PathY, GoodHunk)}

WrappedDiffs == {Lines(Concat(bs)) : bs \in SeqsUpTo(WrappedBlocks, MaxUnits) \ {<<>>}}

\* the path that the header '--- a//' names: the root directory
PathRoot == <<"/", "/">>

\* a section whose old-file header has no path, with a new-file header and
\* hunk lines after it
NoPathSection == <<HeaderNoPath, NewHeaderPrefix \o Tail(PathY), HunkHeader, AddN>>

\* a section whose old-file header is '--- a//'
DoubleSlashSection == <<OldHeaderPrefix \o <<"/">>, NewHeaderPrefix \o <<"/">>, HunkHeader, AddN>>

\* a section with a line between its old-file and its new-file header
GarbageBetween ==
    <<OldHeaderPrefix \o Tail(PathX), Prose, NewHeaderPrefix \o Tail(PathX)>> \o GoodHunk

\* responses with a malformed section before, after or between well-formed ones
MalformedSectionResponses ==
    {Lines(ls) : ls \in {NoPathSection,
                         Section(PathX, GoodHunk) \o NoPathSection,
                         Section(PathX, GoodHunk) \o NoPathSection \o Section(PathY, GoodHunk),
                         DoubleSlashSection,
                         Section(PathX, GoodHunk) \o DoubleSlashSection,
                         GarbageBetween}}

DiffResponses ==
    {Lines(Concat(bs)) : bs \in SeqsUpTo(DiffBlocks, MaxUnits)}
        \cup NoSectionResponses \cup UNION {FencedDiffs(d) : d \in WrappedDiffs}
        \cup MalformedSectionResponses

\* a file block of a full-text response, as prompt/generate.go lays it out
FileBlock(path, content) ==
    BeginMarkerPrefix \o <<" ">> \o path \o BeginMarkerSuffix \o content
        \o EndMarkerPrefix \o path \o EndMarkerSuffix

\* a file block whose end marker is missing
OpenBlock(path, content) == BeginMarkerPrefix \o <<" ">> \o path \o BeginMarkerSuffix \o content

NewX == <<"h", "i", NL>>

NewY == <<"y", "o">>

\* a begin marker that lacks the suffix after its path
BrokenBegin(path) == BeginMarkerPrefix \o <<" ">> \o path \o <<NL>>

\* the blocks a full-text response is made of
FullTextBlocks ==
    {FileBlock(PathX, NewX), FileBlock(PathY, NewY), OpenBlock(PathX, NewX),
     BrokenBegin(PathX), Prose \o <<NL>>}

\* a response inside a markdown code fence
Fenced(body) == Fence \o <<NL>> \o body \o <<NL>> \o Fence \o <<NL>>

XLine == <<"x">>

\* a variant of PromptBlock that adds no line terminator to the content
PromptBlock_NoTerminatorAdded(filePath, content) ==
    BeginMarkerPrefix \o filePath \o BeginMarkerSuffix \o content
        \o EndMarkerPrefix \o filePath \o EndMarkerSuffix

\* prompt/generate.go:49-56: the block GeneratePrompt writes for a file
PromptBlock(filePath, content) ==
    BeginMarkerPrefix \o filePath \o BeginMarkerSuffix \o content
        \o (IF content # <<>> /\ content[Len(content)] = NL THEN <<>> ELSE <<NL>>)
        \o EndMarkerPrefix \o filePath \o EndMarkerSuffix

\* a block in which the end marker without its line terminator, followed by
\* other text on its line, precedes the end marker
TwoEndBlock(path) ==
    BeginMarkerPrefix \o <<" ">> \o path \o BeginMarkerSuffix \o NewY
        \o EndMarkerPrefix \o path \o EndMarkerSuffixNoNewline \o XLine
        \o EndMarkerPrefix \o path \o EndMarkerSuffix

\* the blocks of the prompt given back as the response, and responses with
\* two end markers in a block
OtherFullTextResponses ==
    {PromptBlock(PathX, NewX), PromptBlock(PathY, NewY), PromptBlock(PathY, <<>>),
     PromptBlock(PathX, NewX) \o PromptBlock(PathY, NewY),
     TwoEndBlock(PathX), TwoEndBlock(PathX) \o Prose \o <<NL>>,
     TwoEndBlock(PathX) \o FileBlock(PathY, NewY)}

FullTextResponses ==
    UNION {{Concat(bs), Fenced(Concat(bs))} : bs \in SeqsUpTo(FullTextBlocks, MaxUnits)}
        \cup OtherFullTextResponses

\* what a path of the model may hold before the call
OldFiles ==
    {Absent, File(OldContent), [kind |-> "readonly", content |-> OldContent],
     [kind |-> "dir", content |-> <<>>], [kind |-> "noaccess", content |-> <<>>]}

\* the file systems a call may start from; the diagnostic file of fullText.go
\* can be written or not
Disks ==
    {[p \in {PathX, PathY, fullTextPath, PathRoot} |->
         IF p = PathX THEN fx
         ELSE IF p = PathY THEN fy
         ELSE IF p = fullTextPath THEN ft
         ELSE [kind |-> "dir", content |-> <<>>]] :
        fx \in OldFiles, fy \in OldFiles, ft \in {Absent, [kind |-> "dir", content |-> <<>>]}}

Init ==
    \/ \E u \in DiffResponses, d \in Disks :
           Start(Args("ApplyChangesToFiles", <<>>, u, <<>>), d)
    \/ \E f \in FullTextResponses, d \in Disks :
           Start(Args("ApplyFullTextChangesToFiles", <<>>, <<>>, f), d)

\* udf.go:150-163: the parse, and the return when it found no file section
CallApplyChangesToFiles ==
    /\ pc = "call"
    /\ input.fn = "ApplyChangesToFiles"
    /\ fileDiffs' = parseUnifiedDiffString(input.unifiedDiff)
    /\ pending' = DOMAIN fileDiffs'
    /\ IF pending' = {}
       THEN pc' = "done" /\ ret' = Returned("nil", <<>>, <<>>)
       ELSE pc' = "loop" /\ ret' = ret
    /\ UNCHANGED <<input, disk, disk0, remainingResponse, foundAnyFile, log>>

\* udf.go:165-200: one iteration of the range over the map, which visits the
\* keys in an order the language does not fix, and the return after the last
RangeFileDiffs ==
    /\ pc = "loop"
    /\ \E filePath \in pending :
           \E o \in ProcessFile(disk, filePath, fileDiffs[filePath]) :
               /\ disk' = o.disk
               /\ log' = log \o o.events
               /\ pending' = pending \ {filePath}
               /\ IF o.err # "nil"
                  THEN pc' = "done" /\ ret' = Returned(o.err, <<>>, filePath)
                  ELSE IF pending' = {}
                  THEN pc' = "done" /\ ret' = Returned("nil", <<>>, <<>>)
                  ELSE pc' = "loop" /\ ret' = ret
    /\ UNCHANGED <<input, disk0, fileDiffs, remainingResponse, foundAnyFile>>

\* fullText.go:20-36: the cleaning of the response and the diagnostic copy
CallApplyFullTextChangesToFiles ==
    /\ pc = "call"
    /\ input.fn = "ApplyFullTextChangesToFiles"
    /\ \E text \in {TrimSpace(cleanAIMarkdown(input.fullTextResponse))} :
           \E w \in {WriteFile(disk, fullTextPath, text)} :
               /\ disk' = w.disk
               /\ log' = Append(log, Event("write", fullTextPath, w.ok, text))
               /\ remainingResponse' = text
               /\ IF w.ok
                  THEN pc' = "scan" /\ ret' = ret
                  ELSE pc' = "done" /\ ret' = Returned("diag", <<>>, fullTextPath)
    /\ foundAnyFile' = FALSE
    /\ UNCHANGED <<input, disk0, fileDiffs, pending>>

\* fullText.go:38-124: one iteration of the loop over the blocks, and the
\* return after the loop
ScanFileBlock ==
    /\ pc = "scan"
    /\ \E b \in {NextFileBlock(remainingResponse)} :
           IF ~b.found
           THEN /\ pc' = "done"
                /\ ret' = Returned(IF foundAnyFile THEN "nil" ELSE "noblocks", <<>>, <<>>)
                /\ UNCHANGED <<disk, log, remainingResponse, foundAnyFile>>
           ELSE \E o \in {WriteBlock(disk, b)} :
                    /\ disk' = o.disk
                    /\ log' = log \o o.events
                    /\ IF o.err # "nil"
                       THEN /\ pc' = "done"
                            /\ ret' = Returned(o.err, <<>>, b.filePath)
                            /\ UNCHANGED <<remainingResponse, foundAnyFile>>
                       ELSE /\ pc' = "scan"
                            /\ ret' = ret
                            /\ remainingResponse' = b.rest
                            /\ foundAnyFile' = TRUE
    /\ UNCHANGED <<input, disk0, fileDiffs, pending>>

Next ==
    \/ CallApplyChangesToFiles
    \/ RangeFileDiffs
    \/ CallApplyFullTextChangesToFiles
    \/ ScanFileBlock

Spec == Init /\ [][Next]_vars

\* the file systems on which the scan loop is entered (the diagnostic copy can
\* be written) and on which a write fails on a read-only file rather than on a
\* directory, which ends the loop in the same way
ScanDisks ==
    {d \in Disks : /\ d[fullTextPath] = Absent
                   /\ d[PathX].kind # "dir" /\ d[PathY].kind # "dir"}

\* the calls of ApplyFullTextChangesToFiles alone
InitFullText ==
    \E f \in FullTextResponses, d \in ScanDisks :
        Start(Args("ApplyFullTextChangesToFiles", <<>>, <<>>, f), d)

NextFullText == CallApplyFullTextChangesToFiles \/ ScanFileBlock

\* the call runs to its return: a step that can be taken is taken (the loop
\* waits on nothing)
FairSpec == InitFullText /\ [][NextFullText]_vars /\ WF_vars(NextFullText)

(***************************************************************************)
(* SpecSan: a sanitizer applied to a bounded response, and then applied    *)
(* again to what it returned.                                               *)
(***************************************************************************)
\* the longest response, in lines
MaxSanLines == 4

SanLineVocab == {Fence, XLine, BlankLine}

\* a response whose interior is itself inside a fence
NestedFences == Join(<<Fence, Fence, XLine, Fence, Fence>>)

SanResponses ==
    UNION {{Join(ls), Join(ls) \o <<NL>>} : ls \in SeqsUpTo(SanLineVocab, MaxSanLines)}
        \cup {NestedFences}

Sanitizers == {"cleanAIMarkdown", "sanitizeResponse"}

\* what the sanitizer fn returns for text: ok is FALSE when it panics
Sanitize(fn, text) ==
    IF fn = "cleanAIMarkdown" THEN [ok |-> TRUE, text |-> cleanAIMarkdown(text)]
    ELSE Bind(sanitizeResponse(text), LAMBDA r : [ok |-> ~r.panic, text |-> r.text])

InitSan ==
    \E fn \in Sanitizers, r \in SanResponses :
        Start(Args(fn, <<>>, <<>>, r), NoDisk)

\* the first application, to the response
CallSanitizer ==
    /\ pc = "call"
    /\ input.fn \in Sanitizers
    /\ \E r \in {Sanitize(input.fn, input.fullTextResponse)} :
           /\ log' = Append(log, Event("sanitize", <<>>, r.ok, r.text))
           /\ remainingResponse' = r.text
           /\ IF r.ok
              THEN pc' = "again" /\ ret' = ret
              ELSE pc' = "done" /\ ret' = Returned("panic", <<>>, <<>>)
    /\ UNCHANGED <<input, disk, disk0, fileDiffs, pending, foundAnyFile>>

\* the second application, to what the first one returned
CallSanitizerAgain ==
    /\ pc = "again"
    /\ \E r \in {Sanitize(input.fn, remainingResponse)} :
           /\ log' = Append(log, Event("sanitize", <<>>, r.ok, r.text))
           /\ remainingResponse' = r.text
           /\ pc' = "done"
           /\ ret' = Returned(IF r.ok THEN "nil" ELSE "panic", r.text, <<>>)
    /\ UNCHANGED <<input, disk, disk0, fileDiffs, pending, foundAnyFile>>

NextSan == CallSanitizer \/ CallSanitizerAgain

SpecSan == InitSan /\ [][NextSan]_vars

(***************************************************************************)
(* The claims.  Those about ApplyUnifiedDiff are stated of SpecUD, the     *)
(* others of Spec.                                                          *)
(***************************************************************************)
Done == pc = "done"

DiffCall == input.fn = "ApplyChangesToFiles"

FullTextCall == input.fn = "ApplyFullTextChangesToFiles"

\* the log holds a write to path
Wrote(path) == \E j \in DOMAIN log : log[j].op = "write" /\ log[j].path = path

\* C1: when a file's diff cannot be applied (a hunk does not match, or the diff
\* text does not parse) ApplyChangesToFiles leaves the file with the content it
\* had, and it writes a file only directly after the whole diff of that file
\* applied.
C1_NoWriteWithoutCleanApply ==
    DiffCall =>
        \A i \in DOMAIN log :
            /\ (log[i].op = "apply" /\ ~log[i].ok) =>
                   /\ FileAt(disk, log[i].path) = FileAt(disk0, log[i].path)
                   /\ ~Wrote(log[i].path)
            /\ log[i].op = "write" =>
                   /\ i > 1
                   /\ log[i - 1].op = "apply" /\ log[i - 1].path = log[i].path /\ log[i - 1].ok
                   /\ log[i - 1].data = log[i].data

\* a call whose diff for /x failed to apply has returned, and /x holds what it held
C1_Witness ==
    /\ DiffCall /\ Done
    /\ input.unifiedDiff = Lines(Section(PathX, MismatchHunk))
    /\ log = <<Event("read", PathX, TRUE, OldContent), Event("apply", PathX, FALSE, <<>>)>>
    /\ ret = Returned("apply", <<>>, PathX)
    /\ FileAt(disk0, PathX) = File(OldContent)
    /\ FileAt(disk, PathX) = File(OldContent)

\* the last entry of the log that is a successful write to path is entry j
LastWriteTo(path, j) ==
    /\ log[j].op = "write" /\ log[j].path = path /\ log[j].ok
    /\ \A k \in DOMAIN log : (k > j /\ log[k].op = "write" /\ log[k].path = path) => ~log[k].ok

\* C2: in both dialects the first read, apply, check or write that fails ends
\* the batch: it is the last thing the call does, the call returns an error, and
\* every file written before it holds what was written last (no rollback).
C2_FirstFailureEndsBatch ==
    \A i \in DOMAIN log :
        ~log[i].ok =>
            /\ i = Len(log)
            /\ Done
            /\ ret.err \notin {"nil", "running"}
            /\ \A j \in DOMAIN log :
                   LastWriteTo(log[j].path, j) => FileAt(disk, log[j].path) = File(log[j].data)

\* a full-text call wrote /x, failed on /y and returned; /x keeps the new content
C2_Witness ==
    /\ FullTextCall /\ Done
    /\ input.fullTextResponse = FileBlock(PathX, NewX) \o FileBlock(PathY, NewY)
    /\ Len(log) = 5
    /\ log[3] = Event("write", PathX, TRUE, NewX)
    /\ log[5] = Event("write", PathY, FALSE, NewY)
    /\ ret = Returned("write", <<>>, PathY)
    /\ FileAt(disk0, PathX) = File(OldContent)
    /\ FileAt(disk, PathX) = File(NewX)
    /\ FileAt(disk, PathY) = FileAt(disk0, PathY)

\* the lines of text that open the file section of path
SectionLines(text, path) ==
    {i \in DOMAIN Split(text) :
        HasPrefix(Split(text)[i], OldHeaderPrefix) /\ HeaderPath(Split(text)[i]) = path}

\* the section of path q comes before the section of path p in text
SectionBefore(text, q, p) ==
    /\ SectionLines(text, q) # {}
    /\ SectionLines(text, p) # {}
    /\ SetMin(SectionLines(text, q)) < SetMin(SectionLines(text, p))

\* C3: ApplyChangesToFiles takes the file sections in the order of the text:
\* when it reads the file of a section, the file of every earlier section has
\* been read, patched and written.
C3_TextualOrder ==
    DiffCall =>
        \A j \in DOMAIN log :
            log[j].op = "read" =>
                \A q \in DOMAIN fileDiffs :
                    SectionBefore(input.unifiedDiff, q, log[j].path) =>
                        \E i \in 1..(j - 1) :
                            log[i].op = "write" /\ log[i].path = q /\ log[i].ok

\* the response holds the section of /x and then that of /y, and the call
\* read /y first
C3_SecondSectionReadFirst ==
    /\ DiffCall
    /\ input.unifiedDiff = Lines(Section(PathX, GoodHunk) \o Section(PathY, GoodHunk))
    /\ Len(log) >= 1
    /\ log[1].op = "read" /\ log[1].path = PathY

\* OldContent with GoodHunk applied
PatchedContent == <<"a", "n", "b">>

\* C4: for a response of one well-formed file section whose hunk matches the
\* existing file, ApplyChangesToFiles returns no error, the file then holds the
\* patched content, and no other file changed.
C4_SingleSectionApplied ==
    \A p \in {PathX, PathY} :
        (/\ DiffCall /\ Done
         /\ input.unifiedDiff = Lines(Section(p, GoodHunk))
         /\ FileAt(disk0, p) = File(OldContent))
        => /\ ret.err = "nil"
           /\ FileAt(disk, p) = File(PatchedContent)
           /\ \A q \in DOMAIN disk0 : q # p => FileAt(disk, q) = disk0[q]

\* the call on the well-formed section of the existing file /x returned an error
C4_WellFormedSectionRejected ==
    /\ DiffCall /\ Done
    /\ input.unifiedDiff = Lines(Section(PathX, GoodHunk))
    /\ FileAt(disk0, PathX) = File(OldContent)
    /\ ret = Returned("apply", <<>>, PathX)
    /\ disk = disk0

UDCall == input.fn = "ApplyUnifiedDiff"

\* the hunks of the call's diff text, <<>> when the text does not parse
Hunks ==
    IF PatchFromText(input.unifiedDiff).err THEN <<>>
    ELSE PatchFromText(input.unifiedDiff).patches

\* the pre-image of a hunk: its context and deleted lines joined
PreImage(hunk) == DiffText1(hunk.diffs)

\* the post-image of a hunk: its context and added lines joined
PostImage(hunk) == DiffText2(hunk.diffs)

\* The original content with the pre-image of each hunk from i on replaced by
\* its post-image, each looked for from where the one before ended; found is
\* FALSE when a pre-image does not occur there.
RECURSIVE ReplaceHunks(_, _, _, _)
ReplaceHunks(text, hunks, i, from) ==
    IF i > Len(hunks) THEN [found |-> TRUE, text |-> text]
    ELSE LET pre == PreImage(hunks[i])
             at == Index(Slice(text, from, Len(text)), pre)
         IN  IF at = -1 THEN [found |-> FALSE, text |-> text]
             ELSE ReplaceHunks(Slice(text, 0, from + at) \o PostImage(hunks[i])
                                   \o Slice(text, from + at + Len(pre), Len(text)),
                               hunks, i + 1, from + at + Len(PostImage(hunks[i])))

\* C5: when the pre-image of a hunk is not a substring of the original content
\* left at the point the hunk is reached, ApplyUnifiedDiff returns an error and
\* the empty string.
C5_MissingPreImageFails ==
    (/\ UDCall /\ Done
     /\ Len(Hunks) >= 1
     /\ ~ReplaceHunks(input.originalContent, Hunks, 1, 0).found)
    => /\ ret.err \in {"parse", "mismatch"}
       /\ ret.content = <<>>

\* the call returned "a" and no error although the original "ax" does not hold
\* the pre-image "ab" of the hunk
C5_MissingPreImageAccepted ==
    /\ UDCall /\ Done
    /\ input.originalContent = <<"a", "x">>
    /\ input.unifiedDiff = Lines(<<HunkHeader, ContextA, DeleteB>>)
    /\ ~ReplaceHunks(input.originalContent, Hunks, 1, 0).found
    /\ ret = Returned("nil", <<"a">>, <<>>)

\* no line of text is a hunk header
NoHunkHeader(text) == \A i \in DOMAIN Split(text) : ~MatchPatchHeader(Split(text)[i]).ok

\* C6, as the code has it: for the empty diff text ApplyUnifiedDiff returns the
\* original content and no error, whatever the original; for a text that is not
\* empty and whose first line is not a hunk header it returns an error and the
\* empty string.
C6_EmptyDiffIsIdentity ==
    (UDCall /\ Done) =>
        /\ input.unifiedDiff = <<>> => ret = Returned("nil", input.originalContent, <<>>)
        /\ (input.unifiedDiff # <<>> /\ ~MatchPatchHeader(Split(input.unifiedDiff)[1]).ok)
               => ret = Returned("parse", <<>>, <<>>)

\* the call on the empty diff text returned the original "ab"
C6_Witness ==
    /\ UDCall /\ Done
    /\ input.unifiedDiff = <<>>
    /\ input.originalContent = <<"a", "b">>
    /\ ret = Returned("nil", <<"a", "b">>, <<>>)

\* C6, as the specification words it: for every diff text without a hunk
\* header (the empty text included) ApplyUnifiedDiff returns the original
\* content and no error.
C6_NoHunkIsIdentity ==
    (UDCall /\ Done /\ NoHunkHeader(input.unifiedDiff))
    => ret = Returned("nil", input.originalContent, <<>>)

\* C7: when the pre-image of every hunk is found, ApplyUnifiedDiff returns no
\* error and the original content with each pre-image replaced by its
\* post-image.
C7_HunksReplaced ==
    (/\ UDCall /\ Done
     /\ Len(Hunks) >= 1
     /\ ReplaceHunks(input.originalContent, Hunks, 1, 0).found)
    => /\ ret.err = "nil"
       /\ ret.content = ReplaceHunks(input.originalContent, Hunks, 1, 0).text

\* the call that adds "n" after the "a" of the original "ab" returned "a"
C7_FirstByteReturned ==
    /\ UDCall /\ Done
    /\ input.originalContent = <<"a", "b">>
    /\ input.unifiedDiff = Lines(<<HunkHeader, ContextA, AddN>>)
    /\ ReplaceHunks(input.originalContent, Hunks, 1, 0).text = <<"a", "n", "b">>
    /\ ret = Returned("nil", <<"a">>, <<>>)

\* the hunks hold context lines only
ContextOnly(hunks) ==
    /\ Len(hunks) >= 1
    /\ \A i \in DOMAIN hunks : \A k \in DOMAIN hunks[i].diffs : hunks[i].diffs[k].op = "="

\* C8: a diff whose hunks hold context lines only leaves any original content
\* unchanged: ApplyUnifiedDiff returns it with no error.
C8_ContextOnlyIsIdentity ==
    (UDCall /\ Done /\ ContextOnly(Hunks))
    => ret = Returned("nil", input.originalContent, <<>>)

\* the call with the context lines "a" and "b" on the original "ab" returned "a"
C8_ContextOnlyTruncates ==
    /\ UDCall /\ Done
    /\ input.originalContent = <<"a", "b">>
    /\ input.unifiedDiff = Lines(<<HunkHeader, ContextA, ContextB>>)
    /\ ret = Returned("nil", <<"a">>, <<>>)

\* C9: when ApplyChangesToFiles comes to a unit whose path does not exist, its
\* read fails, the call returns the not-found error for that path, the path
\* still does not exist and no file has changed.
C9_MissingFileNotCreated ==
    DiffCall =>
        \A i \in DOMAIN log :
            FileAt(disk0, log[i].path).kind = "absent" =>
                /\ log[i] = Event("read", log[i].path, FALSE, <<>>)
                /\ Done
                /\ ret = Returned("notfound", <<>>, log[i].path)
                /\ FileAt(disk, log[i].path) = Absent
                /\ disk = disk0

\* the call for the missing /x, beside an existing /y, returned not found
C9_Witness ==
    /\ DiffCall /\ Done
    /\ input.unifiedDiff = Lines(Section(PathX, GoodHunk))
    /\ FileAt(disk0, PathX) = Absent
    /\ FileAt(disk0, PathY) = File(OldContent)
    /\ log = <<Event("read", PathX, FALSE, <<>>)>>
    /\ ret = Returned("notfound", <<>>, PathX)
    /\ disk = disk0

\* C10: when ApplyChangesToFiles returns an error, every file that existed
\* before the call holds its initial content.
C10_ErrorLeavesFilesAsTheyWere ==
    (DiffCall /\ Done /\ ret.err # "nil") =>
        \A p \in DOMAIN disk0 :
            disk0[p].kind \in {"file", "readonly"} => FileAt(disk, p) = disk0[p]

\* a call with the sections of two existing files returned an error after it
\* had read one of them, and both files hold their initial content
C10_Witness ==
    /\ DiffCall /\ Done
    /\ input.unifiedDiff = Lines(Section(PathX, GoodHunk) \o Section(PathY, <<>>))
    /\ FileAt(disk0, PathX) = File(OldContent)
    /\ FileAt(disk0, PathY) = File(OldContent)
    /\ ret.err = "apply"
    /\ Len(log) = 2 /\ log[1].op = "read" /\ log[1].ok
    /\ FileAt(disk, PathX) = File(OldContent)
    /\ FileAt(disk, PathY) = File(OldContent)

\* the target paths of the model and what the responses put there
Targets == {PathX, PathY}

NewContent(path) == IF path = PathX THEN NewX ELSE NewY

\* the diagnostic copy of the response was written (fullText.go:28)
DiagWritten == FileAt(disk0, fullTextPath).kind \in {"absent", "file"}

\* os.WriteFile can write path on the disk the call started from
Writable(path) == FileAt(disk0, path).kind \in {"absent", "file"}

\* the writes to target files, in order
TargetWrites == SelectSeq(log, LAMBDA e : e.op = "write" /\ e.path # fullTextPath)

\* t, and t inside a code fence
Wrapped(t) == {t, Fenced(t)}

\* the responses that hold one begin/end marker pair, for path
OnePair(path) ==
    UNION {Wrapped(t) : t \in {FileBlock(path, NewContent(path)),
                               Prose \o <<NL>> \o FileBlock(path, NewContent(path)),
                               FileBlock(path, NewContent(path)) \o Prose \o <<NL>>}}

OpenOnlyResponses ==
    UNION {Wrapped(t) : t \in {OpenBlock(PathX, NewX),
                               Prose \o <<NL>> \o OpenBlock(PathX, NewX),
                               OpenBlock(PathX, NewX) \o Prose \o <<NL>>,
                               OpenBlock(PathX, NewX) \o OpenBlock(PathX, NewX)}}

\* the responses with a whole block for path and then a begin marker without
\* end marker
BlockThenOpen(path) ==
    Wrapped(FileBlock(path, NewContent(path)) \o OpenBlock(PathX, NewX))

\* C12: in ApplyFullTextChangesToFiles a begin marker without a matching end
\* marker ends the scan: when no block was extracted before it the call returns
\* "no valid file blocks found" and writes no target file; the block extracted
\* before it stays written and the call returns no error.
C12_OpenBlockEndsScan ==
    /\ (Done /\ FullTextCall /\ DiagWritten /\ input.fullTextResponse \in OpenOnlyResponses) =>
           /\ ret.err = "noblocks"
           /\ TargetWrites = <<>>
           /\ \A q \in Targets : FileAt(disk, q) = FileAt(disk0, q)
    /\ \A path \in Targets :
           (/\ Done /\ FullTextCall /\ DiagWritten /\ Writable(path)
            /\ input.fullTextResponse \in BlockThenOpen(path)) =>
               /\ ret.err = "nil"
               /\ TargetWrites = <<Event("write", path, TRUE, NewContent(path))>>
               /\ FileAt(disk, path) = File(NewContent(path))
               /\ \A q \in Targets \ {path} : FileAt(disk, q) = FileAt(disk0, q)

\* the block for /y was written, the open block for /x ended the scan
C12_Witness ==
    /\ Done /\ FullTextCall
    /\ input.fullTextResponse = FileBlock(PathY, NewY) \o OpenBlock(PathX, NewX)
    /\ FileAt(disk0, PathX) = File(OldContent)
    /\ ret.err = "nil"
    /\ FileAt(disk, PathY) = File(NewY)
    /\ FileAt(disk, PathX) = File(OldContent)

\* C13: when the target path of a full-text block does not exist,
\* ApplyFullTextChangesToFiles creates the file with the content of the block
\* and goes on with the next block: the check of the path is followed by a
\* successful write of it and no error is returned for it.
C13_MissingTargetCreated ==
    \A path \in Targets :
        (FullTextCall /\ FileAt(disk0, path) = Absent) =>
            /\ \A j \in DOMAIN log :
                   (log[j].op = "stat" /\ log[j].path = path) =>
                       /\ log[j].ok
                       /\ j < Len(log)
                       /\ log[j + 1].op = "write" /\ log[j + 1].path = path /\ log[j + 1].ok
                       /\ \E k \in DOMAIN log :
                              LastWriteTo(path, k) /\ FileAt(disk, path) = File(log[k].data)
                       /\ pc = "scan" \/ Done
            /\ (Done /\ ret.err # "nil") => ret.path # path

\* /x did not exist: it was created, and the block for /y was written after it
C13_Witness ==
    /\ Done /\ FullTextCall
    /\ input.fullTextResponse = FileBlock(PathX, NewX) \o FileBlock(PathY, NewY)
    /\ FileAt(disk0, PathX) = Absent
    /\ FileAt(disk0, PathY) = File(OldContent)
    /\ ret.err = "nil"
    /\ FileAt(disk, PathX) = File(NewX)
    /\ FileAt(disk, PathY) = File(NewY)

\* the responses whose first begin marker lacks its suffix
BrokenOnlyResponses ==
    UNION {Wrapped(t) : t \in {BrokenBegin(PathX),
                               Prose \o <<NL>> \o BrokenBegin(PathX),
                               BrokenBegin(PathX) \o Prose \o <<NL>>,
                               BrokenBegin(PathX) \o BrokenBegin(PathX)}}

\* the responses with a whole block for path and then a begin marker that
\* lacks its suffix
BlockThenBroken(path) ==
    Wrapped(FileBlock(path, NewContent(path)) \o BrokenBegin(PathX))

\* C14 as stated: ApplyFullTextChangesToFiles returns an error whenever the
\* response holds a begin marker whose prefix is never followed by the
\* begin-marker suffix.
C14_BrokenBeginIsError ==
    \A path \in Targets :
        (/\ Done /\ FullTextCall
         /\ input.fullTextResponse \in BrokenOnlyResponses \cup BlockThenBroken(path)) =>
            ret.err # "nil"

\* C14: ApplyFullTextChangesToFiles stops the scan at a begin marker that lacks
\* its suffix and writes no file for it; it returns "no valid file blocks
\* found" when no block was written before that marker, and no error when a
\* block was written before it.
C14_BrokenBeginEndsScan ==
    /\ (Done /\ FullTextCall /\ DiagWritten /\ input.fullTextResponse \in BrokenOnlyResponses) =>
           /\ ret.err = "noblocks"
           /\ TargetWrites = <<>>
           /\ \A q \in Targets : FileAt(disk, q) = FileAt(disk0, q)
    /\ \A path \in Targets :
           (/\ Done /\ FullTextCall /\ DiagWritten /\ Writable(path)
            /\ input.fullTextResponse \in BlockThenBroken(path)) =>
               /\ ret.err = "nil"
               /\ TargetWrites = <<Event("write", path, TRUE, NewContent(path))>>
               /\ \A q \in Targets \ {path} : FileAt(disk, q) = FileAt(disk0, q)

\* the block for /y was written, the begin marker for /x without suffix ended
\* the scan, and the call returned no error
C14_Witness ==
    /\ Done /\ FullTextCall
    /\ input.fullTextResponse = FileBlock(PathY, NewY) \o BrokenBegin(PathX)
    /\ FileAt(disk0, PathX) = File(OldContent)
    /\ ret.err = "nil"
    /\ FileAt(disk, PathY) = File(NewY)
    /\ FileAt(disk, PathX) = File(OldContent)

\* the diff stream with the section of '--- a/x' and then the section of
\* '--- a/y', each with its new-file header and one hunk
TwoSections == Lines(Section(PathX, GoodHunk) \o Section(PathY, GoodHunk))

\* the parse of the response is done
Parsed == DiffCall /\ pc # "call"

\* C15: for the diff stream with the sections of '--- a/x' and '--- a/y' the
\* splitter yields exactly two units, keyed by x and y (the second token of the
\* header without its two characters 'a/'), the unit for x before the unit
\* for y.
C15_TwoUnitsXThenY ==
    (Parsed /\ input.unifiedDiff = TwoSections) =>
        /\ DOMAIN fileDiffs = {Tail(PathX), Tail(PathY)}
        /\ log # <<>> => log[1].path = Tail(PathX)

\* the two units are keyed by /x and /y, and the unit for /y came first
C15_SlashKeptAndYFirst ==
    /\ Parsed /\ input.unifiedDiff = TwoSections
    /\ DOMAIN fileDiffs = {PathX, PathY}
    /\ log # <<>>
    /\ log[1].path = PathY

\* the lines of text that are file headers
HeaderLines(text) ==
    {i \in DOMAIN Split(text) :
        HasPrefix(Split(text)[i], OldHeaderPrefix) \/ HasPrefix(Split(text)[i], NewHeaderPrefix)}

\* C16: the diff text the splitter stores for a file never holds the '--- a/'
\* or the '+++ b/' header line of the section, for every input.
C16_HeadersStripped ==
    Parsed => \A path \in DOMAIN fileDiffs : HeaderLines(fileDiffs[path]) = {}

\* the text stored for /x is the whole section, its two header lines
\* included, and a line terminator for the empty piece after the last one
C16_HeadersKept ==
    /\ Parsed /\ input.unifiedDiff = Lines(Section(PathX, GoodHunk))
    /\ DOMAIN fileDiffs = {PathX}
    /\ fileDiffs[PathX] = Lines(Section(PathX, GoodHunk)) \o <<NL>>
    /\ HeaderLines(fileDiffs[PathX]) = {1, 2}

\* C17: when the response holds no valid file section (the empty text, blank
\* lines only, or a '+++ b/' header that no '--- a/' header precedes) the
\* splitter returns the empty mapping and ApplyChangesToFiles returns success
\* without reading or writing a file.
C17_NoSectionIsSuccess ==
    (DiffCall /\ input.unifiedDiff \in NoSectionResponses) =>
        /\ pc # "loop"
        /\ Done => /\ ret.err = "nil"
                   /\ fileDiffs = EmptyMap
                   /\ log = <<>>
                   /\ disk = disk0

\* a lone '+++ b/x' header with a hunk after it: nothing was read or written
C17_Witness ==
    /\ Done /\ DiffCall
    /\ input.unifiedDiff = Lines(<<LoneNewHeader, HunkHeader, AddN>>)
    /\ FileAt(disk0, PathX) = File(OldContent)
    /\ ret.err = "nil"
    /\ log = <<>>
    /\ disk = disk0

SanCall == input.fn \in Sanitizers

\* the lines of text that are not empty
NonEmptyLines(text) == {i \in DOMAIN Split(text) : Split(text)[i] # <<>>}

\* the first and the last non-empty line of text are two lines that both
\* start with a fence; the first is the first line of text and nothing but
\* the final line terminator follows the last
FenceWrapped(text) ==
    /\ NonEmptyLines(text) # {}
    /\ SetMin(NonEmptyLines(text)) = 1
    /\ SetMax(NonEmptyLines(text)) > 1
    /\ SetMax(NonEmptyLines(text)) >= Len(Split(text)) - 1
    /\ HasPrefix(Split(text)[1], Fence)
    /\ HasPrefix(Split(text)[SetMax(NonEmptyLines(text))], Fence)

\* the first or the last non-empty line of text does not start with a fence
NotFenceWrapped(text) ==
    \/ NonEmptyLines(text) = {}
    \/ ~HasPrefix(Split(text)[SetMin(NonEmptyLines(text))], Fence)
    \/ ~HasPrefix(Split(text)[SetMax(NonEmptyLines(text))], Fence)

\* the lines between the two fence lines of a wrapped text, as they stand
Interior(text) == Lines(SubSeq(Split(text), 2, SetMax(NonEmptyLines(text)) - 1))

\* C18: when the first and the last non-empty line of the response both start
\* with a fence, the sanitizer removes exactly those two lines and returns the
\* interior unchanged; in every other case it returns its input unchanged.
C18_SanitizerContract ==
    (SanCall /\ Len(log) >= 1) =>
        /\ FenceWrapped(input.fullTextResponse) =>
               log[1].ok /\ log[1].data = Interior(input.fullTextResponse)
        /\ NotFenceWrapped(input.fullTextResponse) =>
               log[1].ok /\ log[1].data = input.fullTextResponse

\* cleanAIMarkdown returned the interior "x" without its line terminator
C18_InteriorTrimmed ==
    /\ input.fn = "cleanAIMarkdown"
    /\ input.fullTextResponse = Join(<<Fence, XLine, Fence>>) \o <<NL>>
    /\ Interior(input.fullTextResponse) = XLine \o <<NL>>
    /\ Len(log) >= 1
    /\ log[1].data = XLine

\* C19: the sanitizer is idempotent: applied to what it returned it returns
\* the same text, also when the interior of the response begins and ends with
\* fence lines.
C19_SanitizerIdempotent ==
    (SanCall /\ Len(log) = 2) => log[2].ok /\ log[2].data = log[1].data

\* the second application stripped the fence lines of the interior
C19_SecondPassStripsAgain ==
    /\ input.fn = "cleanAIMarkdown"
    /\ input.fullTextResponse = NestedFences
    /\ Len(log) = 2
    /\ log[1].data = Join(<<Fence, XLine, Fence>>)
    /\ log[2].data = XLine

\* C20: a diff response inside one pair of fence lines is sanitized to exactly
\* the diff between the fence lines, its final line terminator included,
\* before it is split into file sections: the splitter sees what it sees for
\* the bare diff.
C20_WrappedDiffSanitized ==
    \A diff \in WrappedDiffs :
        (Parsed /\ input.unifiedDiff \in FencedDiffs(diff)) =>
            /\ fileDiffs = parseUnifiedDiffString(diff)
            /\ sanitizeResponse(input.unifiedDiff) = [panic |-> FALSE, text |-> diff]

\* the closing fence line reached the splitter and is part of the diff of /x;
\* sanitizeResponse would have left it in the text as well
C20_FenceReachesSplitter ==
    /\ Parsed
    /\ input.unifiedDiff = FenceDiff \o <<NL>> \o Lines(Section(PathX, GoodHunk)) \o Fence \o <<NL>>
    /\ fileDiffs[PathX] = Lines(Section(PathX, GoodHunk)) \o Fence \o <<NL, NL>>
    /\ fileDiffs # parseUnifiedDiffString(Lines(Section(PathX, GoodHunk)))
    /\ sanitizeResponse(input.unifiedDiff).text = Lines(Section(PathX, GoodHunk)) \o Fence

\* the text between the fence lines of a response made by Fenced, and the
\* response itself when it does not start with a fence
Unfenced(r) ==
    IF HasPrefix(r, Fence) THEN SubSeq(r, Len(Fence) + 2, Len(r) - Len(Fence) - 2) ELSE r

\* C22 as stated: the first thing ApplyFullTextChangesToFiles does is to write
\* a copy of the full incoming response text to the diagnostic location, and
\* no target file is written unless that write happened.
C22_RawCopyFirst ==
    (FullTextCall /\ pc # "call") =>
        /\ Len(log) >= 1
        /\ log[1].op = "write" /\ log[1].path = fullTextPath
        /\ log[1].data = input.fullTextResponse
        /\ Len(log) > 1 => log[1].ok

\* C22: before it processes any block ApplyFullTextChangesToFiles writes the
\* response, without its enclosing fence lines and without leading and
\* trailing white space, to the diagnostic location; every check and write of
\* a target file comes after that write, and when that write fails the call
\* returns an error and nothing else is done.
C22_CleanedCopyFirst ==
    (FullTextCall /\ pc # "call") =>
        /\ Len(log) >= 1
        /\ log[1].op = "write" /\ log[1].path = fullTextPath
        /\ log[1].data = TrimSpace(Unfenced(input.fullTextResponse))
        /\ log[1].ok <=> DiagWritten
        /\ log[1].ok => FileAt(disk, fullTextPath) = File(log[1].data)
        /\ ~log[1].ok => (Done /\ ret.err = "diag" /\ Len(log) = 1 /\ disk = disk0)
        /\ \A j \in DOMAIN log : j > 1 => log[j].path # fullTextPath

\* the fenced response with the block for /x: the copy holds the block
\* without the fence lines and the last line terminator, and /x was written
\* after it
C22_Witness ==
    /\ Done /\ FullTextCall
    /\ input.fullTextResponse = Fenced(FileBlock(PathX, NewX))
    /\ Len(log) = 3
    /\ log[1] = Event("write", fullTextPath, TRUE, TrimSpace(FileBlock(PathX, NewX)))
    /\ log[1].data # input.fullTextResponse
    /\ log[3] = Event("write", PathX, TRUE, NewX)

\* the map that holds text for path and nothing else
OneUnit(path, text) == MapPut(EmptyMap, path, text)

C24_LastSectionWins ==
    Parsed =>
        /\ input.unifiedDiff = Lines(Section(PathX, GoodHunk) \o Section(PathX, MismatchHunk)) =>
               fileDiffs = OneUnit(PathX, Lines(Section(PathX, MismatchHunk)) \o <<NL>>)
        /\ input.unifiedDiff = Lines(Section(PathX, MismatchHunk) \o Section(PathX, GoodHunk)) =>
               fileDiffs = OneUnit(PathX, Lines(Section(PathX, GoodHunk)) \o <<NL>>)

\* two sections for /x: the entry holds the second one, and no line of the
\* hunk of the first
C24_Witness ==
    /\ Parsed
    /\ input.unifiedDiff = Lines(Section(PathX, GoodHunk) \o Section(PathX, MismatchHunk))
    /\ DOMAIN fileDiffs = {PathX}
    /\ Contains(fileDiffs[PathX], DeleteZs)
    /\ ~Contains(fileDiffs[PathX], AddN)

\* C25: a section in which another line stands between the '--- a/' header
\* and the '+++ b/' header is malformed: the block is invalidated and no unit
\* is emitted for its path.
C25_GarbageBetweenInvalidates ==
    (Parsed /\ input.unifiedDiff = Lines(GarbageBetween)) => fileDiffs = EmptyMap

\* the unit for /x was emitted, the line between the headers part of its text
C25_UnitEmitted ==
    /\ Parsed
    /\ input.unifiedDiff = Lines(GarbageBetween)
    /\ fileDiffs = OneUnit(PathX, Lines(GarbageBetween) \o <<NL>>)
    /\ Contains(fileDiffs[PathX], Prose \o <<NL>> \o NewHeaderPrefix)

\* C26: the diff text of a section is exactly the input lines that follow its
\* headers, up to the next old-file header or the end of the input; for an
\* input that ends with a line terminator the text of the last section ends
\* with its last line and one terminator, without an empty line after it.
C26_VerbatimSingleTerminator ==
    /\ (Parsed /\ input.unifiedDiff = Lines(Section(PathY, GoodHunk))) =>
           fileDiffs = OneUnit(PathY, Lines(GoodHunk))
    /\ (Parsed /\ input.unifiedDiff = TwoSections) =>
           /\ DOMAIN fileDiffs = {PathX, PathY}
           /\ fileDiffs[PathX] = Lines(GoodHunk)
           /\ fileDiffs[PathY] = Lines(GoodHunk)

\* the text of the last section ends with an empty line that the input does
\* not hold
C26_ExtraEmptyLine ==
    /\ Parsed
    /\ input.unifiedDiff = Lines(Section(PathY, GoodHunk))
    /\ input.unifiedDiff[Len(input.unifiedDiff) - 1] # NL
    /\ DOMAIN fileDiffs = {PathY}
    /\ Contains(fileDiffs[PathY], Lines(GoodHunk))
    /\ SubSeq(fileDiffs[PathY], Len(fileDiffs[PathY]) - 1, Len(fileDiffs[PathY])) = <<NL, NL>>

\* C27: the splitter treats the headers '--- a/' and '--- a//' alike as
\* malformed: for either no unit is emitted and the lines after it stay
\* outside any block until the next valid header.
C27_BothFormsRejected ==
    Parsed =>
        /\ input.unifiedDiff \in {Lines(NoPathSection), Lines(DoubleSlashSection)} =>
               fileDiffs = EmptyMap
        /\ input.unifiedDiff \in {Lines(Section(PathX, GoodHunk) \o NoPathSection),
                                  Lines(Section(PathX, GoodHunk) \o DoubleSlashSection)} =>
               fileDiffs = OneUnit(PathX, Lines(Section(PathX, GoodHunk)))

\* the header '--- a//' opened a unit for the path "//", which the loop then
\* tried to read
C27_DoubleSlashAccepted ==
    /\ Done /\ DiffCall
    /\ input.unifiedDiff = Lines(DoubleSlashSection)
    /\ fileDiffs = OneUnit(PathRoot, Lines(DoubleSlashSection) \o <<NL>>)
    /\ ret.err = "read"
    /\ ret.path = PathRoot


\* the end markers of path, in the strict and in the relaxed form
EndMarkers(path) ==
    {EndMarkerPrefix \o path \o EndMarkerSuffix,
     EndMarkerPrefix \o path \o EndMarkerSuffixNoNewline}

\* strings.HasSuffix
HasSuffix(s, t) == Len(s) >= Len(t) /\ SubSeq(s, Len(s) - Len(t) + 1, Len(s)) = t

\* one iteration of the scan loop: it leaves the loop with the remaining text
\* as it was, or it writes one block, and the remaining text is then a strictly
\* shorter suffix of what it was, the part consumed ending with the written
\* content and the end marker of the written path
ScanIteration ==
    pc = "scan" =>
        \/ /\ pc' = "done"
           /\ remainingResponse' = remainingResponse
           /\ \/ log' = log /\ ret'.err \in {"nil", "noblocks"}
              \/ ret'.err \in {"stat", "write"}
        \/ /\ pc' = "scan"
           /\ Len(log') > Len(log)
           /\ Len(remainingResponse') < Len(remainingResponse)
           /\ HasSuffix(remainingResponse, remainingResponse')
           /\ \E e \in {log'[Len(log')]} :
                  /\ e.op = "write" /\ e.ok
                  /\ \A j \in (Len(log) + 1)..(Len(log') - 1) : log'[j].op # "write"
                  /\ \E m \in EndMarkers(e.path) :
                         HasSuffix(SubSeq(remainingResponse, 1,
                                          Len(remainingResponse) - Len(remainingResponse')),
                                   e.data \o m)

\* C28: the scan loop of ApplyFullTextChangesToFiles ends for every response:
\* an iteration leaves the loop, or writes one block and goes on with a strictly
\* shorter rest of the text that starts after the end marker it consumed, so
\* that no character is in two blocks; and every call returns.
C28_ScanLoopTerminates == [][ScanIteration]_vars /\ <>Done

\* two blocks were consumed one after the other and the loop ended on the
\* empty rest
C28_Witness ==
    /\ Done /\ FullTextCall
    /\ input.fullTextResponse = FileBlock(PathX, NewX) \o FileBlock(PathY, NewY)
    /\ ret.err = "nil"
    /\ remainingResponse = <<>>
    /\ Len(TargetWrites) = 2
    /\ TargetWrites[1].data = NewX /\ TargetWrites[2].data = NewY


\* the successful writes to the files of the blocks
BlockWrites == SelectSeq(TargetWrites, LAMBDA e : e.ok)

\* C29 as stated: the content written for a block of a path never holds an end
\* marker of that path, in the strict or in the relaxed form.
C29_NoEndMarkerInContent ==
    FullTextCall =>
        \A j \in DOMAIN BlockWrites :
            \A m \in EndMarkers(BlockWrites[j].path) : ~Contains(BlockWrites[j].data, m)

\* the text from the start of the content of the block that a scan step wrote,
\* given the content and the end marker that the step consumed
FromContentStart(data, m) ==
    SubSeq(remainingResponse,
           Len(remainingResponse) - Len(remainingResponse') - Len(m) - Len(data) + 1,
           Len(remainingResponse))

\* a scan step that wrote a block ended the block at the first end marker in
\* the strict form when the text from the content start on holds one, and at
\* the first end marker in the relaxed form when it holds none
EndsAtStrictElseRelaxed ==
    (pc = "scan" /\ pc' = "scan") =>
        \E e \in {log'[Len(log')]} :
            \E m \in EndMarkers(e.path) :
                /\ HasSuffix(SubSeq(remainingResponse, 1,
                                    Len(remainingResponse) - Len(remainingResponse')),
                             e.data \o m)
                /\ \E seg \in {FromContentStart(e.data, m)} :
                       /\ HasPrefix(seg, e.data \o m)
                       /\ IF Contains(seg, EndMarkerPrefix \o e.path \o EndMarkerSuffix)
                          THEN /\ m = EndMarkerPrefix \o e.path \o EndMarkerSuffix
                               /\ Index(seg, m) = Len(e.data)
                          ELSE /\ m = EndMarkerPrefix \o e.path \o EndMarkerSuffixNoNewline
                               /\ Index(seg, m) = Len(e.data)

\* C29 (amended): the content written for a block of path P never holds the end
\* marker of P in the strict form; the block ends at the first strict end marker
\* after the content start when there is one, and at the first relaxed one
\* otherwise, so the content can hold the relaxed form in front of a strict one.
C29_EndsAtStrictElseRelaxed == [][EndsAtStrictElseRelaxed]_vars

\* the block for /x was written with the relaxed end marker and the text after
\* it inside the content, up to the strict end marker
C29_Witness ==
    /\ Done /\ FullTextCall
    /\ input.fullTextResponse = TwoEndBlock(PathX) \o Prose \o <<NL>>
    /\ ret.err = "nil"
    /\ FileAt(disk, PathX)
           = File(NewY \o EndMarkerPrefix \o PathX \o EndMarkerSuffixNoNewline \o XLine)

\* the (path, content) pairs whose prompt blocks are among the responses
PromptPairs == {<<PathX, NewX>>, <<PathY, NewY>>, <<PathY, <<>>>>}

\* content, ended by a line terminator if it has none at its end
Terminated(content) ==
    IF content # <<>> /\ content[Len(content)] = NL THEN content ELSE content \o <<NL>>

\* C30 as stated: the block of the prompt for (P, C), given as the response,
\* has exactly C written to P, whether or not C ends with a line terminator.
C30_RoundTripExact ==
    \A pr \in PromptPairs :
        (Done /\ FullTextCall /\ input.fullTextResponse = PromptBlock(pr[1], pr[2])
              /\ ret.err = "nil")
            => FileAt(disk, pr[1]) = File(pr[2])

\* C30 (amended): the block of the prompt for (P, C), given as the response, has
\* C written to P when C ends with a line terminator, and C followed by one line
\* terminator when it does not; nothing else is written but the diagnostic copy.
C30_RoundTripTerminated ==
    \A pr \in PromptPairs :
        (Done /\ FullTextCall /\ input.fullTextResponse = PromptBlock(pr[1], pr[2])) =>
            /\ \A j \in DOMAIN TargetWrites :
                   TargetWrites[j].path = pr[1] /\ TargetWrites[j].data = Terminated(pr[2])
            /\ (ret.err = "nil") <=> (DiagWritten /\ Writable(pr[1]))
            /\ (ret.err = "nil") => FileAt(disk, pr[1]) = File(Terminated(pr[2]))

\* the block of the prompt for /y and "yo" had "yo" and a line terminator
\* written to /y
C30_Witness ==
    /\ Done /\ FullTextCall
    /\ input.fullTextResponse = PromptBlock(PathY, NewY)
    /\ NewY[Len(NewY)] # NL
    /\ ret.err = "nil"
    /\ FileAt(disk, PathY) = File(NewY \o <<NL>>)

====
